---- MODULE Spec2Model ----
(***************************************************************************)
(* Model of the Nutritional_ChatBot retrieval-and-caching engine           *)
(* (src/app.py, src/api/chat.py): the rate limiter, the TTL caches and     *)
(* their sweep, the conversation memory and the knowledge-base search.     *)
(*                                                                         *)
(* Conventions                                                             *)
(*  - time is time.time() in whole seconds (variable now);                 *)
(*  - a text is a sequence of one-character strings;                       *)
(*  - a client identifier is the sequence of the ':'-separated fields of   *)
(*    its text: a field >= 0 is a run of decimal digits with that value,   *)
(*    a field < 0 is a text int() cannot parse ("10.0.0.1", "", "db8");    *)
(*  - a similarity is an integer number of hundredths (0.2 is 20).         *)
(***************************************************************************)
EXTENDS Integers, Sequences, FiniteSets, TLC

VARIABLES
    now,                 \* time.time(), seconds
    rate_limit_tracker,  \* app.py:49  key -> count (a defaultdict(int))
    rl_calls,            \* observer: calls made per client in the current minute bucket
    rl_last,             \* observer: the last rate_limit_check call and its outcome
    rl_total,            \* observer: number of rate_limit_check calls started so far
    rl_pc,               \* concurrent requests: position of each request in rate_limit_check
    rl_loc,              \* concurrent requests: locals of each request
    conversation_memory, \* app.py:53  client -> list of interactions
    mem_log,             \* observer: every interaction ever appended, per client
    kb_docs,             \* app.py:40  the loaded corpus
    search_cache,        \* app.py:45  key -> (timestamp, results)
    response_cache,      \* app.py:44  key -> (timestamp, response text)
    research_cache,      \* app.py:54  key -> (timestamp, results)
    embedding_cache,     \* app.py:46  never written by the program
    last_cleanup,        \* app.py:50  time of the last sweep
    learning_database,   \* app.py:63  query signature -> stored interactions
    knowledge_expansion, \* app.py:66  concept -> what was learned about it
    learning_file,       \* app.py:67  the snapshot file at LEARNING_DB_PATH
    app_module,          \* api/chat.py:17-21  the application module, or None
    chat_run,            \* one chat request on its way through the handler
    kb1_csv,             \* train_chat_model.py:9  knowledge_base.csv
    kb2_csv,             \* train_chat_model.py:10  the second CSV source
    trained_model,       \* train_chat_model.py:11  trained_model.json
    req_pc,              \* concurrent requests: position of each request in its function
    req_loc,             \* concurrent requests: locals of each request
    op,                  \* observer: the last operation, its inputs and what it returned
    ticks,               \* observer: number of clock advances so far
    ops                  \* observer: number of operations so far

rlVars == <<rate_limit_tracker, rl_calls, rl_last, rl_total, rl_pc, rl_loc>>

memVars == <<conversation_memory, mem_log>>

cacheVars == <<search_cache, response_cache, research_cache, embedding_cache, last_cleanup>>

obsVars == <<op, ticks, ops>>

learnVars == <<learning_database, knowledge_expansion, learning_file>>

chatVars == <<app_module, chat_run>>

trainVars == <<kb1_csv, kb2_csv, trained_model>>

concVars == <<req_pc, req_loc>>

vars == <<now, rlVars, memVars, kb_docs, cacheVars, obsVars, learnVars, chatVars, trainVars, concVars>>

\* What each component's actions leave alone.
nonRLVars == <<memVars, kb_docs, cacheVars, obsVars, learnVars, chatVars, trainVars, concVars>>

nonMemVars == <<rlVars, kb_docs, cacheVars, obsVars, learnVars, chatVars, trainVars, concVars>>

nonCacheVars == <<rlVars, memVars, learnVars, chatVars, trainVars, concVars>>

\* ---------------------------------------------------------------- helpers

Min(a, b) == IF a <= b THEN a ELSE b

Max(a, b) == IF a >= b THEN a ELSE b

Restrict(f, S) == [x \in S |-> f[x]]

\* dict.get(key, default)
DictGet(data, key, default) == IF key \in DOMAIN data THEN data[key] ELSE default

\* The process starts well after the epoch: minute numbers exceed every field of an address.
\* F applied to the value of v, with v evaluated once.
Bind(v, F(_)) == CHOOSE r \in {F(x) : x \in {v}} : TRUE

StartTime == 1000 * 60

\* ------------------------------------------------------------ rate limiter

\* Bounds of the rate-limiter specifications.
RLLimit == 2

RLMaxMinutes == 7

RLMaxCalls == 5

RLThreads == 3

\* "10.0.0.1", "::1" and "2001:470::1" as ':'-separated fields.
PlainClient == <<-1>>

LoopbackV6 == <<-2, -2, 1>>

NumericV6 == <<2001, 470, -2, 1>>

Clients == {PlainClient, LoopbackV6, NumericV6}

\* current_time // 60
MinuteOf(t) == t \div 60

\* f"{client_ip}:{current_time // 60}", as the fields key.split(':') yields.
MinuteKey(client_ip, minute) == Append(client_ip, minute)

\* key.split(':')[1]
SecondField(key) == key[2]

\* int(text) raises ValueError unless the text is a run of digits.
IntParses(field) == field >= 0

\* rate_limit_tracker[minute_key] on a defaultdict(int): a missing key is inserted with 0.
DefaultGet(tracker, key) == IF key \in DOMAIN tracker THEN tracker ELSE tracker @@ (key :> 0)

\* The buckets the pruning comprehension selects.
OldKeys(tracker, minute) == {key \in DOMAIN tracker : SecondField(key) < minute - 5}

\* The pruning comprehension raises as soon as one key's second field is not a number.
PruneRaises(tracker) == \E key \in DOMAIN tracker : ~IntParses(SecondField(key))

\* rate_limit_check counting the rejected request too.
rate_limit_check_CountsRejected(tracker, client_ip, limit, t) ==
    LET minute_key == MinuteKey(client_ip, MinuteOf(t))
        touched == DefaultGet(tracker, minute_key)
        inc == [touched EXCEPT ![minute_key] = @ + 1]
    IN  IF touched[minute_key] >= limit
        THEN [tracker |-> inc, ret |-> "False"]
        ELSE IF PruneRaises(inc)
        THEN [tracker |-> inc, ret |-> "ValueError"]
        ELSE [tracker |-> Restrict(inc, DOMAIN inc \ OldKeys(inc, MinuteOf(t))),
              ret |-> "True"]

\* rate_limit_check(client_ip, limit) at time t: the tracker afterwards and the outcome
\* ("True", "False", or the exception that escapes).
rate_limit_check(tracker, client_ip, limit, t) ==
    LET minute == MinuteOf(t)
        minute_key == MinuteKey(client_ip, minute)
        touched == DefaultGet(tracker, minute_key)
    IN  IF touched[minute_key] >= limit
        THEN [tracker |-> touched, ret |-> "False"]
        ELSE LET inc == [touched EXCEPT ![minute_key] = @ + 1]
             IN  IF PruneRaises(inc)
                 THEN [tracker |-> inc, ret |-> "ValueError"]
                 ELSE [tracker |-> Restrict(inc, DOMAIN inc \ OldKeys(inc, minute)),
                       ret |-> "True"]

NoCall == [client |-> <<>>, nth |-> 0, ret |-> "none", minute |-> 0]

RLIdle == /\ rl_pc = <<>>
          /\ rl_loc = <<>>

\* The state of each component when the process starts.
RLStart ==
    /\ rate_limit_tracker = <<>>
    /\ rl_calls = [c \in Clients |-> 0]
    /\ rl_last = NoCall
    /\ rl_total = 0

MemStart ==
    /\ conversation_memory = <<>>
    /\ mem_log = <<>>

\* LEARNING_DB_PATH before the first save.
NoFile == [exists |-> FALSE, writes |-> 0]

\* The learning tables are empty until the first interaction is learned.
LearnStart ==
    /\ learning_database = <<>>
    /\ knowledge_expansion = <<>>
    /\ learning_file = NoFile

\* No chat request is under way, and api/chat.py is not the entry point (app.py runs
\* as the main program).
NoRun == [pc |-> "idle"]

ChatIdle ==
    /\ app_module = "unset"
    /\ chat_run = NoRun

\* train_chat_model.py has not run: no CSV source and no trained model is there.
NoCsv == [exists |-> FALSE, rows |-> <<>>]

TrainIdle ==
    /\ kb1_csv = NoCsv
    /\ kb2_csv = NoCsv
    /\ trained_model = NoFile

\* No request is inside a function whose steps are followed one by one.
ConcIdle ==
    /\ req_pc = <<>>
    /\ req_loc = <<>>

NoOp == [name |-> "none"]

CacheStart ==
    /\ search_cache = <<>>
    /\ response_cache = <<>>
    /\ research_cache = <<>>
    /\ embedding_cache = <<>>
    /\ last_cleanup = StartTime
    /\ op = NoOp
    /\ ticks = 0
    /\ ops = 0

RLInit ==
    /\ now = StartTime
    /\ RLStart
    /\ RLIdle
    /\ MemStart
    /\ LearnStart
    /\ ChatIdle
    /\ TrainIdle
    /\ ConcIdle
    /\ kb_docs = <<>>
    /\ CacheStart

\* One request runs rate_limit_check to its end (requests served one after another).
RateLimitCheck(c) ==
    /\ rl_total < RLMaxCalls
    /\ rl_total' = rl_total + 1
    /\ LET r == rate_limit_check(rate_limit_tracker, c, RLLimit, now)
       IN  /\ rate_limit_tracker' = r.tracker
           /\ rl_last' = [client |-> c, nth |-> rl_calls[c] + 1, ret |-> r.ret,
                          minute |-> MinuteOf(now)]
    /\ rl_calls' = [rl_calls EXCEPT ![c] = @ + 1]
    /\ UNCHANGED <<now, rl_pc, rl_loc, nonRLVars>>

\* The wall clock moves on by whole minutes (one minute, or past the pruning horizon).
RLTick(d) ==
    /\ MinuteOf(now) + d <= MinuteOf(StartTime) + RLMaxMinutes
    /\ now' = now + 60 * d
    /\ rl_calls' = [c \in Clients |-> 0]
    /\ UNCHANGED <<rate_limit_tracker, rl_last, rl_total, rl_pc, rl_loc, nonRLVars>>

RLNext ==
    \/ \E c \in Clients : RateLimitCheck(c)
    \/ \E d \in {1, 6} : RLTick(d)

SpecRateLimit == RLInit /\ [][RLNext]_vars

\* ------------------------------------------- rate limiter, concurrent requests

\* Flask serves each request on its own thread; rate_limit_check takes no lock
\* (queue_lock is never acquired), so its statements interleave.
Threads == 1..RLThreads

NoLocals == [client |-> <<>>, minute |-> 0, tmp |-> 0, old_keys |-> {}, ret |-> "none"]

KeyOf(t) == MinuteKey(rl_loc[t].client, rl_loc[t].minute)

\* Another request is about to insert or delete a key of the tracker.
ResizePending(t) ==
    \E u \in Threads \ {t} :
        \/ rl_pc[u] \in {"check", "load", "store"} /\ KeyOf(u) \notin DOMAIN rate_limit_tracker
        \/ rl_pc[u] = "delete" /\ rl_loc[u].old_keys # {}

RLConcInit ==
    /\ now = StartTime
    /\ RLStart
    /\ rl_pc = [t \in Threads |-> "idle"]
    /\ rl_loc = [t \in Threads |-> NoLocals]
    /\ MemStart
    /\ LearnStart
    /\ ChatIdle
    /\ TrainIdle
    /\ ConcIdle
    /\ kb_docs = <<>>
    /\ CacheStart

\* lines 119-120: current_time and minute_key are computed.
RLBegin(t, c) ==
    /\ rl_pc[t] = "idle"
    /\ rl_pc' = [rl_pc EXCEPT ![t] = "check"]
    /\ rl_loc' = [rl_loc EXCEPT ![t] = [NoLocals EXCEPT !.client = c, !.minute = MinuteOf(now)]]
    /\ UNCHANGED <<now, rate_limit_tracker, rl_calls, rl_last, rl_total, nonRLVars>>

\* line 122: the comparison (the defaultdict inserts a missing key).
RLCheck(t) ==
    /\ rl_pc[t] = "check"
    /\ LET touched == DefaultGet(rate_limit_tracker, KeyOf(t))
       IN  /\ rate_limit_tracker' = touched
           /\ IF touched[KeyOf(t)] >= RLLimit
              THEN /\ rl_pc' = [rl_pc EXCEPT ![t] = "done"]
                   /\ rl_loc' = [rl_loc EXCEPT ![t].ret = "False"]
              ELSE /\ rl_pc' = [rl_pc EXCEPT ![t] = "load"]
                   /\ rl_loc' = rl_loc
    /\ UNCHANGED <<now, rl_calls, rl_last, rl_total, nonRLVars>>

\* line 125, first half: the count is read.
RLLoad(t) ==
    /\ rl_pc[t] = "load"
    /\ LET touched == DefaultGet(rate_limit_tracker, KeyOf(t))
       IN  /\ rate_limit_tracker' = touched
           /\ rl_loc' = [rl_loc EXCEPT ![t].tmp = touched[KeyOf(t)]]
    /\ rl_pc' = [rl_pc EXCEPT ![t] = "store"]
    /\ UNCHANGED <<now, rl_calls, rl_last, rl_total, nonRLVars>>

\* line 125, second half: count + 1 is stored.
RLStore(t) ==
    /\ rl_pc[t] = "store"
    /\ rate_limit_tracker' =
           [k \in DOMAIN rate_limit_tracker \cup {KeyOf(t)} |->
               IF k = KeyOf(t) THEN rl_loc[t].tmp + 1 ELSE rate_limit_tracker[k]]
    /\ rl_pc' = [rl_pc EXCEPT ![t] = "scan"]
    /\ UNCHANGED <<now, rl_calls, rl_last, rl_total, rl_loc, nonRLVars>>

\* lines 128-129: the comprehension over the keys. It raises ValueError on a key whose
\* second field is no number, and RuntimeError when the dictionary is resized under it.
RLScan(t) ==
    /\ rl_pc[t] = "scan"
    /\ \E resized \in {b \in BOOLEAN : b => ResizePending(t)} :
         IF resized
         THEN /\ rl_pc' = [rl_pc EXCEPT ![t] = "done"]
              /\ rl_loc' = [rl_loc EXCEPT ![t].ret = "RuntimeError"]
         ELSE IF PruneRaises(rate_limit_tracker)
         THEN /\ rl_pc' = [rl_pc EXCEPT ![t] = "done"]
              /\ rl_loc' = [rl_loc EXCEPT ![t].ret = "ValueError"]
         ELSE /\ rl_pc' = [rl_pc EXCEPT ![t] = "delete"]
              /\ rl_loc' = [rl_loc EXCEPT ![t].old_keys =
                                OldKeys(rate_limit_tracker, rl_loc[t].minute)]
    /\ UNCHANGED <<now, rate_limit_tracker, rl_calls, rl_last, rl_total, nonRLVars>>

\* lines 130-133: one iteration of the deleting loop, or the return after it.
RLDelete(t) ==
    /\ rl_pc[t] = "delete"
    /\ IF rl_loc[t].old_keys = {}
       THEN /\ rl_pc' = [rl_pc EXCEPT ![t] = "done"]
            /\ rl_loc' = [rl_loc EXCEPT ![t].ret = "True"]
            /\ rate_limit_tracker' = rate_limit_tracker
       ELSE \E key \in rl_loc[t].old_keys :
              IF key \in DOMAIN rate_limit_tracker
              THEN /\ rate_limit_tracker' =
                          Restrict(rate_limit_tracker, DOMAIN rate_limit_tracker \ {key})
                   /\ rl_loc' = [rl_loc EXCEPT ![t].old_keys = @ \ {key}]
                   /\ rl_pc' = rl_pc
              ELSE /\ rl_pc' = [rl_pc EXCEPT ![t] = "done"]
                   /\ rl_loc' = [rl_loc EXCEPT ![t].ret = "KeyError"]
                   /\ rate_limit_tracker' = rate_limit_tracker
    /\ UNCHANGED <<now, rl_calls, rl_last, rl_total, nonRLVars>>

RLConcNext ==
    \/ \E t \in Threads, c \in Clients : RLBegin(t, c)
    \/ \E t \in Threads : RLCheck(t)
    \/ \E t \in Threads : RLLoad(t)
    \/ \E t \in Threads : RLStore(t)
    \/ \E t \in Threads : RLScan(t)
    \/ \E t \in Threads : RLDelete(t)

SpecRateLimitConc == RLConcInit /\ [][RLConcNext]_vars

\* ------------------------------------------------------ conversation memory

\* Bounds of the conversation-memory specification.
MemMaxUpdates == 7

MemMaxTicks == 2

MemClients == {PlainClient, LoopbackV6}

MemQueries == {"q1", "q2"}

MemResponses == {"r1"}

\* conversation_memory[client_ip][-n:]
LastN(seq, n) == SubSeq(seq, Max(1, Len(seq) - n + 1), Len(seq))

\* update_conversation_memory trimming to the 5 oldest interactions.
update_conversation_memory_KeepsOldest(memory, client_ip, query, response, t) ==
    LET created == IF client_ip \in DOMAIN memory THEN memory
                   ELSE memory @@ (client_ip :> <<>>)
        entry == [query |-> query, response |-> response, timestamp |-> t]
        appended == [created EXCEPT ![client_ip] = Append(@, entry)]
    IN  IF Len(appended[client_ip]) > 5
        THEN [appended EXCEPT ![client_ip] = SubSeq(@, 1, 5)]
        ELSE appended

\* update_conversation_memory(client_ip, query, response) at time t.
update_conversation_memory(memory, client_ip, query, response, t) ==
    LET created == IF client_ip \in DOMAIN memory THEN memory
                   ELSE memory @@ (client_ip :> <<>>)
        entry == [query |-> query, response |-> response, timestamp |-> t]
        appended == [created EXCEPT ![client_ip] = Append(@, entry)]
    IN  IF Len(appended[client_ip]) > 5
        THEN [appended EXCEPT ![client_ip] = LastN(@, 5)]
        ELSE appended

\* get_conversation_context(client_ip): the (question, answer) lines of the last 3
\* interactions, oldest first; no line without a history.
get_conversation_context(memory, client_ip) ==
    IF client_ip \notin DOMAIN memory THEN <<>>
    ELSE LET recent_context == LastN(memory[client_ip], 3)
             Lines[i \in 0..Len(recent_context)] ==
                 IF i = 0 THEN <<>>
                 ELSE Lines[i - 1]
                      \o <<[line |-> "Previous question", text |-> recent_context[i].query],
                           [line |-> "Previous answer", text |-> recent_context[i].response]>>
         IN  Lines[Len(recent_context)]

LogOf(c) == IF c \in DOMAIN mem_log THEN mem_log[c] ELSE <<>>

TotalLogged == LET Sum[S \in SUBSET DOMAIN mem_log] ==
                       IF S = {} THEN 0
                       ELSE LET c == CHOOSE x \in S : TRUE
                            IN  Len(mem_log[c]) + Sum[S \ {c}]
               IN  Sum[DOMAIN mem_log]

MemInit ==
    /\ now = StartTime
    /\ MemStart
    /\ LearnStart
    /\ ChatIdle
    /\ TrainIdle
    /\ ConcIdle
    /\ RLStart
    /\ RLIdle
    /\ kb_docs = <<>>
    /\ CacheStart

UpdateConversationMemory(c, q, r) ==
    /\ TotalLogged < MemMaxUpdates
    /\ conversation_memory' = update_conversation_memory(conversation_memory, c, q, r, now)
    /\ mem_log' = [k \in DOMAIN mem_log \cup {c} |->
                      IF k = c
                      THEN Append(LogOf(c), [query |-> q, response |-> r, timestamp |-> now])
                      ELSE mem_log[k]]
    /\ UNCHANGED <<now, nonMemVars>>

MemTick ==
    /\ now < StartTime + MemMaxTicks
    /\ now' = now + 1
    /\ UNCHANGED <<memVars, nonMemVars>>

MemNext ==
    \/ \E c \in MemClients, q \in MemQueries, r \in MemResponses :
           UpdateConversationMemory(c, q, r)
    \/ MemTick

SpecMemory == MemInit /\ [][MemNext]_vars

\* Requests of client c that rate_limit_check admitted.
Admitted(c) == {t \in Threads : rl_loc[t].client = c /\ rl_loc[t].ret = "True"}

\* -------------------------------------------------------------------- texts

\* str.lower() on the ASCII letters.
UpperCase == <<"A", "B", "C", "D", "E", "F", "G", "H", "I", "J", "K", "L", "M",
               "N", "O", "P", "Q", "R", "S", "T", "U", "V", "W", "X", "Y", "Z">>

LowerCase == <<"a", "b", "c", "d", "e", "f", "g", "h", "i", "j", "k", "l", "m",
               "n", "o", "p", "q", "r", "s", "t", "u", "v", "w", "x", "y", "z">>

LowerChar(ch) ==
    IF \E i \in 1..Len(UpperCase) : UpperCase[i] = ch
    THEN LowerCase[CHOOSE i \in 1..Len(UpperCase) : UpperCase[i] = ch]
    ELSE ch

Lower(text) == [i \in 1..Len(text) |-> LowerChar(text[i])]

\* str.split(): the maximal runs of non-blank characters, in order.
RECURSIVE SplitFrom(_, _, _, _)
SplitFrom(text, i, word, words) ==
    IF i > Len(text)
    THEN IF word = <<>> THEN words ELSE Append(words, word)
    ELSE IF text[i] = " "
    THEN SplitFrom(text, i + 1, <<>>, IF word = <<>> THEN words ELSE Append(words, word))
    ELSE SplitFrom(text, i + 1, Append(word, text[i]), words)

Split(text) == SplitFrom(text, 1, <<>>, <<>>)

\* str.strip() for blanks.
RECURSIVE Strip(_)
Strip(text) ==
    IF text = <<>> THEN <<>>
    ELSE IF Head(text) = " " THEN Strip(Tail(text))
    ELSE IF text[Len(text)] = " " THEN Strip(SubSeq(text, 1, Len(text) - 1))
    ELSE text

\* str.split(sep) for a one-character separator: the parts between the separators,
\* empty ones included.
RECURSIVE SplitAt(_, _, _, _, _)
SplitAt(text, sep, i, part, parts) ==
    IF i > Len(text) THEN Append(parts, part)
    ELSE IF text[i] = sep THEN SplitAt(text, sep, i + 1, <<>>, Append(parts, part))
    ELSE SplitAt(text, sep, i + 1, Append(part, text[i]), parts)

\* `needle in hay` on strings: needle occurs as a substring.
Contains(hay, needle) ==
    \E i \in 0..(Len(hay) - Len(needle)) : SubSeq(hay, i + 1, i + Len(needle)) = needle

\* sum(...) over a sequence of integers.
RECURSIVE SumSeq(_)
SumSeq(xs) == IF xs = <<>> THEN 0 ELSE Head(xs) + SumSeq(Tail(xs))

\* ------------------------------------------------------------------- corpus

T_Dal == <<"D", "a", "l">>

T_Roti == <<"R", "o", "t", "i">>

T_MoongDal == <<"M", "o", "o", "n", "g", " ", "D", "a", "l">>

T_Ghee == <<"G", "h", "e", "e">>

T_dal == <<"d", "a", "l">>

T_pulse == <<"p", "u", "l", "s", "e">>

T_bread == <<"b", "r", "e", "a", "d">>

T_fat == <<"f", "a", "t">>

T_roti_dal == <<"r", "o", "t", "i", " ", "d", "a", "l">>

T_moong_dal == <<"m", "o", "o", "n", "g", " ", "d", "a", "l">>

T_ghee == <<"g", "h", "e", "e">>

\* Queries, as the client types them.
Q_dal == <<"d", "a", "l">>

Q_DalRoti == <<"D", "a", "l", " ", "r", "o", "t", "i">>

Q_dal_dal_dal == <<"d", "a", "l", " ", "d", "a", "l", " ", "d", "a", "l">>

Q_oil == <<"o", "i", "l">>

Q_more_dal == <<"m", "o", "r", "e", " ", "a", "b", "o", "u", "t", " ", "d", "a", "l">>

\* Queries that contain the separators of a cache key.
Q_one == <<"1">>

Q_one_sep_one == <<"1", ":", "_", "1">>

\* "1:" followed by the digest of the list of ids ["dal"].
Q_one_digest == <<"1", ":", "md5[", "dal", "]">>

ShareQueries == {Q_one, Q_one_sep_one, Q_one_digest}

\* Python's None, as a value no text equals.
PyNone == <<"None">>

\* A document of kb.json after load_knowledge_base; embedding <<>> stands for a document
\* that got no embedding (generation failed at load time).
Doc(id, title, content, category, embedding) ==
    [id |-> id, title |-> title, content |-> content, category |-> category,
     embedding |-> embedding]

DocDal == Doc("dal", T_Dal, T_dal, T_pulse, <<3, 4>>)

DocRoti == Doc("roti", T_Roti, T_roti_dal, T_bread, <<4, 3>>)

DocMoong == Doc("moong-dal", T_MoongDal, T_moong_dal, T_pulse, <<>>)

DocGhee == Doc("ghee", T_Ghee, T_ghee, T_fat, <<0, 5>>)

DocDalCurry == Doc("dal-curry", T_Dal, T_dal, T_dal, <<-3, -4>>)

\* A document whose "title" is null in kb.json, without an embedding.
DocUntitled == Doc("untitled", PyNone, T_dal, T_pulse, <<>>)

\* --------------------------------------------------------------- retrieval

\* math.sqrt on the squared magnitudes the model's vectors have (all perfect squares).
ISqrt(n) == CHOOSE r \in 0..n : r * r <= n /\ (r + 1) * (r + 1) > n

Dot(a, b) == SumSeq([i \in 1..Min(Len(a), Len(b)) |-> a[i] * b[i]])

\* cosine_similarity(a, b), in hundredths.
cosine_similarity(a, b) ==
    LET dot_product == Dot(a, b)
        magnitude_a == ISqrt(Dot(a, a))
        magnitude_b == ISqrt(Dot(b, b))
    IN  IF magnitude_a = 0 \/ magnitude_b = 0 THEN 0
        ELSE (100 * dot_product) \div (magnitude_a * magnitude_b)

\* The entry both strategies append for a document.
Result(doc, similarity) ==
    [id |-> doc.id, title |-> doc.title, content |-> doc.content,
     similarity |-> similarity, source |-> "knowledge_base"]

\* InsertDesc placing an element ahead of the equal ones already placed.
InsertDesc_TiesFirst(sorted, r) ==
    LET n == Cardinality({i \in 1..Len(sorted) : sorted[i].similarity > r.similarity})
    IN  SubSeq(sorted, 1, n) \o <<r>> \o SubSeq(sorted, n + 1, Len(sorted))

\* list.sort(key=similarity, reverse=True): descending and stable, an element goes
\* behind every element already placed whose similarity is not smaller.
InsertDesc(sorted, r) ==
    LET n == Cardinality({i \in 1..Len(sorted) : sorted[i].similarity >= r.similarity})
    IN  SubSeq(sorted, 1, n) \o <<r>> \o SubSeq(sorted, n + 1, Len(sorted))

RECURSIVE SortDesc(_)
SortDesc(results) ==
    IF results = <<>> THEN <<>>
    ELSE InsertDesc(SortDesc(SubSeq(results, 1, Len(results) - 1)), results[Len(results)])

\* results[:top_k]
Take(results, top_k) == SubSeq(results, 1, Min(top_k, Len(results)))

\* Number of terms of the sequence that occur in the text.
Hits(terms, text) == Cardinality({i \in 1..Len(terms) : Contains(text, terms[i])})

\* lines 585-595: cosine similarity plus 0.2 for every query term found in the title.
BoostedScore(doc, query_embedding, query) ==
    cosine_similarity(query_embedding, doc.embedding)
        + 20 * Hits(Split(Lower(query)), Lower(doc.title))

\* lines 579-614: the vector strategy, given the query's embedding.
RECURSIVE VectorResults(_, _, _, _)
VectorResults(docs, query_embedding, query, threshold) ==
    IF docs = <<>> THEN <<>>
    ELSE LET doc == Head(docs)
             rest == VectorResults(Tail(docs), query_embedding, query, threshold)
             boosted_score == BoostedScore(doc, query_embedding, query)
         IN  IF doc.embedding = <<>> THEN rest
             ELSE IF boosted_score >= threshold
             THEN <<Result(doc, boosted_score)>> \o rest
             ELSE rest

VectorSearch(docs, query_embedding, query, top_k, threshold) ==
    Take(SortDesc(VectorResults(docs, query_embedding, query, threshold)), top_k)

\* lines 639-647: the keyword match score of one document.
KeywordScore(doc, query_terms) ==
    3 * Hits(query_terms, Lower(doc.title))
        + Hits(query_terms, Lower(doc.content))
        + 2 * Hits(query_terms, Lower(doc.category))

RECURSIVE KeywordResults(_, _)
KeywordResults(docs, query_terms) ==
    IF docs = <<>> THEN <<>>
    ELSE LET doc == Head(docs)
             rest == KeywordResults(Tail(docs), query_terms)
             score == KeywordScore(doc, query_terms)
         IN  IF score > 0
             THEN <<Result(doc, Min(score * 10, 100))>> \o rest
             ELSE rest

\* fallback_keyword_search(query, top_k)
fallback_keyword_search(docs, query, top_k) ==
    Take(SortDesc(KeywordResults(docs, Split(Lower(query)))), top_k)

\* The inputs the specifications draw from.
CorpusA == <<DocDal, DocRoti, DocMoong, DocGhee, DocDalCurry>>

CorpusB == <<DocDalCurry, DocGhee, DocMoong, DocRoti, DocDal>>

AllCorpora == {<<>>, CorpusA, CorpusB}

CorpusNull == <<DocDal, DocUntitled>>

\* The four research queries deep_research derives from a query.
ResearchSuffixes ==
    <<<<" ", "c", "o", "m", "p", "r", "e", "h", "e", "n", "s", "i", "v", "e", " ", "o", "v", "e", "r", "v", "i", "e", "w">>,
      <<" ", "s", "c", "i", "e", "n", "t", "i", "f", "i", "c", " ", "r", "e", "s", "e", "a", "r", "c", "h", " ", "a", "n", "d", " ", "s", "t", "u", "d", "i", "e", "s">>,
      <<" ", "d", "e", "t", "a", "i", "l", "e", "d", " ", "a", "n", "a", "l", "y", "s", "i", "s", " ", "a", "n", "d", " ", "b", "e", "n", "e", "f", "i", "t", "s">>,
      <<" ", "p", "r", "a", "c", "t", "i", "c", "a", "l", " ", "a", "p", "p", "l", "i", "c", "a", "t", "i", "o", "n", "s", " ", "a", "n", "d", " ", "u", "s", "e", "s">>>>

ResearchQueries(query) == [i \in 1..Len(ResearchSuffixes) |-> query \o ResearchSuffixes[i]]

AllQueries ==
    {Q_dal, Q_DalRoti, Q_dal_dal_dal, Q_oil, Q_more_dal}
        \cup ShareQueries
        \cup {ResearchQueries(Q_more_dal)[i] : i \in 1..Len(ResearchSuffixes)}

AllTopK == {2, 3, 5}

AllThresholds == {0, 30, 50}

\* The embedding collaborator's answers; NoneEmbedding is an answer whose 'embedding'
\* is None.
NoneEmbedding == <<"None">>

QueryVecs == {<<3, 4>>, <<5, 0>>, NoneEmbedding}

\* Both strategies depend on their arguments only: their values are tabulated once and
\* looked up afterwards (f @@ <<>> is f with every value computed).
KeywordTable ==
    [a \in AllCorpora \X AllQueries \X AllTopK |->
        fallback_keyword_search(a[1], a[2], a[3])] @@ <<>>

VectorTable ==
    [a \in (AllCorpora \cup {CorpusNull}) \X (QueryVecs \ {NoneEmbedding}) \X AllQueries
            \X AllTopK
            \X AllThresholds |->
        VectorSearch(a[1], a[2], a[3], a[4], a[5])] @@ <<>>

\* ------------------------------------------------------------------ caches

\* Bounds of the cache specifications.
CacheMaxTicks == 2

CacheMaxOps == 2

EmbedMaxFails == 3

\* Program constants.
SearchTTL == 300

ResponseTTL == 600

GeminiSearchTTL == 1800

ResearchTTL == 3600

CleanupInterval == 600

CleanupCutoff == 3600

SecondsPerDay == 86400

MaxRetries == 3

\* get_cache_key(query, context): the digest of f"{query}:{context}". The digest is
\* taken to be free of collisions, so the key is the formatted text: the characters
\* of the query, a colon, and the text of the context.
get_cache_key(query, context) == query \o <<":">> \o context

\* f"search_{top_k}_{threshold}"
SearchContext(top_k, threshold) == <<"search_", ToString(top_k), "_", ToString(threshold)>>

\* f"gemini_search_{num_results}"
GeminiContext(num_results) == <<"gemini_search_", ToString(num_results)>>

\* f"gemini_deep_research_{num_results}"
ResearchContext(num_results) == <<"gemini_deep_research_", ToString(num_results)>>

\* str(client_ip): the fields of the address joined by colons, "None" without one.
RECURSIVE ClientText(_)
ClientText(client_ip) ==
    IF client_ip = <<>> THEN <<"None">>
    ELSE IF Len(client_ip) = 1 THEN <<ToString(client_ip[1])>>
    ELSE <<ToString(client_ip[1]), ":">> \o ClientText(Tail(client_ip))

\* ResponseContext without the client.
ResponseContext_NoClient(context_docs, client_ip) == IF context_docs = <<>> THEN <<>> ELSE <<"md5[">> \o [i \in 1..Len(context_docs) |-> context_docs[i].id] \o <<"]">>

\* f"{context_hash}_{client_ip}", context_hash the digest of the list of document
\* ids, or the empty text without documents.
ResponseContext(context_docs, client_ip) ==
    (IF context_docs = <<>> THEN <<>>
     ELSE <<"md5[">> \o [i \in 1..Len(context_docs) |-> context_docs[i].id] \o <<"]">>)
        \o <<"_">> \o ClientText(client_ip)

\* dict[key] = (timestamp, value)
Put(cache, key, timestamp, value) ==
    [k \in DOMAIN cache \cup {key} |->
        IF k = key THEN [timestamp |-> timestamp, value |-> value] ELSE cache[k]]

\* The entry under a key, as a sequence of zero or one entries.
Lookup(cache, key) == IF key \in DOMAIN cache THEN <<cache[key]>> ELSE <<>>

\* Fresh with the lookup always missing.
Fresh_Never(cache, key, t, ttl) == FALSE

\* Fresh without the age test.
Fresh_AnyAge(cache, key, t, ttl) == key \in DOMAIN cache

\* `cache_key in cache` followed by the age test `time.time() - timestamp < ttl`.
Fresh(cache, key, t, ttl) == key \in DOMAIN cache /\ t - cache[key].timestamp < ttl

\* The embedding collaborator during one call: it fails the first `fails` requests and
\* then answers `vec`.
EmbedBehaviours(vecs) == [fails : 0..EmbedMaxFails, vec : vecs]

\* The scoring loop raises (zip over None) at the first document that has an embedding.
ScoringRaises(docs, query_embedding) ==
    query_embedding = NoneEmbedding /\ \E i \in 1..Len(docs) : docs[i].embedding # <<>>

\* fallback_keyword_search raises (None has no lower()) when a document's title is null
\* in kb.json; the scoring loop of the vector strategy raises the same way at such a
\* document when it has an embedding.
KeywordRaises(docs) == \E i \in 1..Len(docs) : docs[i].title = PyNone

TitleRaises(docs) ==
    \E i \in 1..Len(docs) : docs[i].title = PyNone /\ docs[i].embedding # <<>>

\* KeywordFallback without the store.
KeywordFallback_NotCached(docs, cache, cache_key, query, top_k, stamp) ==
    [cache |-> cache, ret |-> KeywordTable[<<docs, query, top_k>>]]

\* lines 573-576 and 623-626: the keyword strategy's list is cached and returned.
KeywordFallback(docs, cache, cache_key, query, top_k, stamp) ==
    LET results == KeywordTable[<<docs, query, top_k>>]
    IN  [cache |-> Put(cache, cache_key, stamp, results), ret |-> results]

\* VectorRanking answering with the keyword strategy's list.
VectorRanking_Lexical(docs, cache, cache_key, query_embedding, query, top_k, threshold, stamp) ==
    [cache |-> Put(cache, cache_key, stamp, KeywordTable[<<docs, query, top_k>>]),
     ret |-> KeywordTable[<<docs, query, top_k>>]]

\* lines 579-619: the vector strategy's list is cached and returned.
VectorRanking(docs, cache, cache_key, query_embedding, query, top_k, threshold, stamp) ==
    LET final_results == VectorTable[<<docs, query_embedding, query, top_k, threshold>>]
    IN  [cache |-> Put(cache, cache_key, stamp, final_results), ret |-> final_results]

\* search_knowledge_base(query, top_k, threshold) called at time t.
\*   cache: search_cache afterwards;  ret: the list returned;  path: how it was obtained
\*   ("raised": the exception of the keyword strategy escapes the call);
\*   embed_calls: requests made to the collaborator;  scored: documents scored;
\*   elapsed: seconds slept between attempts (one after each failed attempt but the last).
search_knowledge_base(docs, cache, query, top_k, threshold, t, embed) ==
    LET cache_key == get_cache_key(query, SearchContext(top_k, threshold))
        attempts == Min(embed.fails + 1, MaxRetries)
        slept == Min(embed.fails, MaxRetries - 1)
        Outcome(r, path) ==
            [cache |-> r.cache, ret |-> r.ret, path |-> path, embed_calls |-> attempts,
             scored |-> Len(docs), elapsed |-> slept]
    IN  IF docs = <<>>
        THEN [cache |-> cache, ret |-> <<>>, path |-> "no_docs",
              embed_calls |-> 0, scored |-> 0, elapsed |-> 0]
        ELSE IF Fresh(cache, cache_key, t, SearchTTL)
        THEN [cache |-> cache, ret |-> cache[cache_key].value, path |-> "cached",
              embed_calls |-> 0, scored |-> 0, elapsed |-> 0]
        ELSE IF /\ embed.fails >= MaxRetries \/ ScoringRaises(docs, embed.vec)
                                              \/ TitleRaises(docs)
                /\ KeywordRaises(docs)
        THEN Outcome([cache |-> cache, ret |-> <<>>], "raised")
        ELSE IF embed.fails >= MaxRetries
        THEN Outcome(KeywordFallback(docs, cache, cache_key, query, top_k, t + slept),
                     "keyword")
        ELSE IF ScoringRaises(docs, embed.vec) \/ TitleRaises(docs)
        THEN Outcome(KeywordFallback(docs, cache, cache_key, query, top_k, t + slept),
                     "error_keyword")
        ELSE Outcome(VectorRanking(docs, cache, cache_key, embed.vec, query, top_k,
                                   threshold, t + slept),
                     "vector")

\* ------------------------------------------------- completion collaborator

\* gemini_model.generate_content during one operation: the requests whose ordinal is in
\* fail_at raise, every other request is answered with `answer`. An answer is kept as what
\* parse_gemini_search_response and format_response_text read from it: the titles of
\* its result sections and a token for its text.
Worlds(embeds, fail_sets, answers) == [embed : embeds, fail_at : fail_sets, answer : answers]

AnswerDal == [token |-> "a1", titles |-> <<T_Dal, T_MoongDal>>]

\* What an operation carries through its nested calls: the tables, the clock, the
\* number of collaborator requests made, a record of every cache lookup, and the
\* lookups whose recomputation failed.
Enter(sc, rc, pc, t) ==
    [search_cache |-> sc, research_cache |-> rc, response_cache |-> pc, t |-> t,
     completes |-> 0, embeds |-> 0, log |-> <<>>, failed |-> {}]

\* One cache lookup as the record keeps it: the table, the key, the time, the age of
\* the entry found (-1 when there is none) and whether the entry was served.
Looked(kind, cache, key, t, served) ==
    [kind |-> kind, key |-> key, served |-> served, at |-> t,
     age |-> IF key \in DOMAIN cache THEN t - cache[key].timestamp ELSE -1]

\* The next request to the completion collaborator succeeds.
CompletionOK(st, world) == (st.completes + 1) \notin world.fail_at

\* parse_gemini_search_response(response_text, query): at most 5 results, one per
\* section; a text without sections gives the single result "Information about ...".
GeminiResult(title, query) ==
    [title |-> title, snippet |-> title, link |-> <<"gemini://search/", query>>,
     source |-> "gemini_search"]

parse_gemini_search_response(answer, query) ==
    IF answer.titles = <<>>
    THEN <<GeminiResult(<<"Information about ">> \o query, query)>>
    ELSE Take([i \in 1..Len(answer.titles) |-> GeminiResult(answer.titles[i], query)], 5)

\* search_knowledge_base as a nested call; raised: its exception escapes.
NestedSearch(st, docs, query, top_k, threshold, world) ==
    Bind(search_knowledge_base(docs, st.search_cache, query, top_k, threshold, st.t,
                               world.embed),
         LAMBDA r :
            LET key == get_cache_key(query, SearchContext(top_k, threshold))
                looked == IF r.path = "no_docs" THEN <<>>
                          ELSE <<Looked("kb_search", st.search_cache, key, st.t,
                                        r.path = "cached")>>
            IN  [st |-> [st EXCEPT !.search_cache = r.cache, !.t = @ + r.elapsed,
                                   !.embeds = @ + r.embed_calls, !.log = @ \o looked],
                 ret |-> r.ret, raised |-> r.path = "raised"])

\* The two simulated results of fallback_search.
T_topic_nutrition == <<"N", "u", "t", "r", "i", "t", "i", "o", "n", "a", "l", " ", "G", "u", "i", "d", "e", "l", "i", "n", "e", "s", " ", "a", "n", "d", " ", "H", "e", "a", "l", "t", "h", " ", "B", "e", "n", "e", "f", "i", "t", "s">>

T_topic_ayurveda == <<"A", "y", "u", "r", "v", "e", "d", "i", "c", " ", "P", "r", "i", "n", "c", "i", "p", "l", "e", "s", " ", "a", "n", "d", " ", "F", "o", "o", "d", " ", "P", "r", "o", "p", "e", "r", "t", "i", "e", "s">>

GeneralTopics ==
    <<[title |-> T_topic_nutrition, snippet |-> T_topic_nutrition,
       link |-> <<"general://nutrition_guidelines">>, source |-> "general_knowledge"],
      [title |-> T_topic_ayurveda, snippet |-> T_topic_ayurveda,
       link |-> <<"general://ayurvedic_principles">>, source |-> "general_knowledge"]>>

\* any(word in topic_lower for word in query_lower.split() if len(word) > 3)
TopicRelevant(topic, query) ==
    LET words == Split(Lower(query))
        topic_lower == Lower(topic.title)
    IN  \E i \in 1..Len(words) : Len(words[i]) > 3 /\ Contains(topic_lower, words[i])

\* content[:150] + '...' when longer than 150 characters.
Snippet(content) == IF Len(content) > 150 THEN SubSeq(content, 1, 150) \o <<"...">> ELSE content

RECURSIVE AddTopics(_, _, _, _)
AddTopics(results, topics, query, num_results) ==
    IF topics = <<>> THEN results
    ELSE AddTopics(IF Len(results) < num_results /\ TopicRelevant(Head(topics), query)
                   THEN Append(results, Head(topics)) ELSE results,
                   Tail(topics), query, num_results)

\* fallback_search(query, num_results)
fallback_search(st, docs, query, num_results, world) ==
    Bind(NestedSearch(st, docs, query, num_results, 30, world),
         LAMBDA kb :
            LET fallback_results ==
                    [i \in 1..Len(kb.ret) |->
                        [title |-> kb.ret[i].title, snippet |-> Snippet(kb.ret[i].content),
                         link |-> <<"knowledge_base://", kb.ret[i].id>>,
                         source |-> "knowledge_base_search"]]
                with_topics ==
                    IF Len(fallback_results) < num_results
                    THEN AddTopics(fallback_results, GeneralTopics, query, num_results)
                    ELSE fallback_results
            IN  [st |-> kb.st, ret |-> IF kb.raised THEN <<>> ELSE Take(with_topics, num_results),
                 raised |-> kb.raised])

\* gemini_search(query, num_results); raised: the exception of the fallback search in
\* its except branch escapes.
gemini_search(st, docs, query, num_results, world) ==
    LET cache_key == get_cache_key(query, GeminiContext(num_results))
        served == Fresh(st.search_cache, cache_key, st.t, GeminiSearchTTL)
        looked == Looked("gemini_search", st.search_cache, cache_key, st.t, served)
        asked == [st EXCEPT !.completes = @ + 1, !.log = Append(@, looked)]
        results == parse_gemini_search_response(world.answer, query)
    IN  IF served
        THEN [st |-> [st EXCEPT !.log = Append(@, looked)],
              ret |-> st.search_cache[cache_key].value, raised |-> FALSE]
        ELSE IF CompletionOK(st, world)
        THEN [st |-> [asked EXCEPT !.search_cache = Put(@, cache_key, st.t, results)],
              ret |-> results, raised |-> FALSE]
        ELSE Bind([asked EXCEPT !.failed = @ \cup {<<"gemini_search", cache_key>>}],
                  LAMBDA failed : fallback_search(failed, docs, query, num_results, world))

\* ------------------------------------------------------- research, response

\* Number of research queries deep_research runs (research_queries[:3]).
ResearchLimit == 3

\* The loop of deep_research over the research queries still to run.
RECURSIVE ResearchLoop(_, _, _, _, _, _)
ResearchLoop(st, docs, queries, num_results, world, all_results) ==
    IF queries = <<>> THEN [st |-> st, ret |-> all_results]
    ELSE
        LET research_query == Head(queries)
            cache_key == get_cache_key(research_query, ResearchContext(num_results))
            served == Fresh(st.research_cache, cache_key, st.t, ResearchTTL)
            entered == [st EXCEPT !.log = Append(@, Looked("research", st.research_cache,
                                                            cache_key, st.t, served))]
        IN  IF served
            THEN Bind(entered,
                      LAMBDA e :
                         ResearchLoop(e, docs, Tail(queries), num_results, world,
                                      all_results \o st.research_cache[cache_key].value))
            ELSE Bind(gemini_search(entered, docs, research_query, 3, world),
                      LAMBDA found :
                         IF found.raised
                         THEN Bind(fallback_search(found.st, docs, research_query, 2, world),
                                   LAMBDA again :
                                      ResearchLoop(again.st, docs, Tail(queries), num_results,
                                                   world, all_results \o again.ret))
                         ELSE
                         Bind([found.st EXCEPT
                                  !.research_cache = Put(@, cache_key, found.st.t, found.ret),
                                  !.t = @ + 1],
                              LAMBDA stored :
                                 ResearchLoop(stored, docs, Tail(queries), num_results,
                                              world, all_results \o found.ret)))

\* The de-duplication of deep_research: a result is dropped when its lowered title
\* contains, or is contained in, the lowered title of a result already kept.
RECURSIVE UniqueTitles(_, _)
UniqueTitles(results, unique) ==
    IF results = <<>> THEN unique
    ELSE LET title_lower == Lower(Head(results).title)
             is_duplicate == \E i \in 1..Len(unique) :
                                \/ Contains(Lower(unique[i].title), title_lower)
                                \/ Contains(title_lower, Lower(unique[i].title))
         IN  UniqueTitles(Tail(results),
                          IF is_duplicate THEN unique ELSE Append(unique, Head(results)))

\* deep_research(query, num_results); the loop's except branch (a second fallback
\* search, whose own failure is swallowed) is in ResearchLoop.
deep_research(st, docs, query, num_results, world) ==
    Bind(ResearchLoop(st, docs, Take(ResearchQueries(query), ResearchLimit), num_results,
                      world, <<>>),
         LAMBDA looped :
            [st |-> looped.st, ret |-> Take(UniqueTitles(looped.ret, <<>>), num_results)])

follow_up_indicators ==
    <<<<"t", "e", "l", "l", " ", "m", "e", " ", "m", "o", "r", "e">>, <<"m", "o", "r", "e", " ", "a", "b", "o", "u", "t">>, <<"e", "x", "p", "l", "a", "i", "n", " ", "f", "u", "r", "t", "h", "e", "r">>, <<"d", "e", "t", "a", "i", "l", "s">>, <<"e", "l", "a", "b", "o", "r", "a", "t", "e">>, <<"e", "x", "p", "a", "n", "d">>,
      <<"g", "o", " ", "d", "e", "e", "p", "e", "r">>, <<"r", "e", "s", "e", "a", "r", "c", "h">>, <<"i", "n", "v", "e", "s", "t", "i", "g", "a", "t", "e">>, <<"w", "h", "a", "t", " ", "e", "l", "s", "e">>, <<"a", "d", "d", "i", "t", "i", "o", "n", "a", "l">>,
      <<"f", "u", "r", "t", "h", "e", "r", " ", "i", "n", "f", "o", "r", "m", "a", "t", "i", "o", "n">>, <<"c", "o", "m", "p", "r", "e", "h", "e", "n", "s", "i", "v", "e">>>>

\* is_follow_up_query(query, client_ip)
is_follow_up_query(memory, query, client_ip) ==
    LET query_lower == Lower(query)
    IN  \/ \E i \in 1..Len(follow_up_indicators) :
               Contains(query_lower, follow_up_indicators[i])
        \/ /\ client_ip \in DOMAIN memory
           /\ LET recent == LastN(memory[client_ip], 3)
              IN  \E k \in 1..Len(recent) :
                     LET words == Split(Lower(recent[k].query))
                     IN  \E j \in 1..Len(words) :
                            Len(words[j]) > 4 /\ Contains(query_lower, words[j])

\* A request without a client address (client_ip=None).
NoClient == <<>>

\* format_response_text(response_text), kept as a marked copy of the answer's text.
format_response_text(answer) == <<"formatted", answer.token>>

Apology == <<"I'm sorry, I encountered an error while processing your request. Please try again.">>

\* generate_response(query, context_docs, client_ip)
generate_response(st, docs, memory, query, context_docs, client_ip, world) ==
    LET cache_key == get_cache_key(query, ResponseContext(context_docs, client_ip))
        served == Fresh(st.response_cache, cache_key, st.t, ResponseTTL)
        entered == [st EXCEPT !.log = Append(@, Looked("response", st.response_cache,
                                                        cache_key, st.t, served))]
        is_follow_up == IF client_ip # NoClient
                        THEN is_follow_up_query(memory, query, client_ip) ELSE FALSE
        formatted_response == format_response_text(world.answer)
    IN  IF served
        THEN [st |-> entered, ret |-> st.response_cache[cache_key].value, path |-> "cached"]
        ELSE Bind(IF is_follow_up THEN deep_research(entered, docs, query, 8, world)
                  ELSE gemini_search(entered, docs, query, 3, world),
                  LAMBDA searched :
                     LET asked == [searched.st EXCEPT !.completes = @ + 1]
                     IN  IF is_follow_up = FALSE /\ searched.raised
                         THEN [st |-> [searched.st EXCEPT
                                          !.failed = @ \cup {<<"response", cache_key>>}],
                               ret |-> Apology, path |-> "error"]
                         ELSE IF CompletionOK(searched.st, world)
                         THEN [st |-> [asked EXCEPT
                                          !.response_cache =
                                              Put(@, cache_key, asked.t, formatted_response)],
                               ret |-> formatted_response, path |-> "generated"]
                         ELSE [st |-> [asked EXCEPT
                                          !.failed = @ \cup {<<"response", cache_key>>}],
                               ret |-> Apology, path |-> "error"])

\* ------------------------------------------------------------------ learning

\* The sentences of a response as response.split('.') yields them, stripped: of the
\* apology of generate_response, of a formatted answer (by its token), and of a
\* response given character by character.
SentencesOf(response) ==
    IF response = Apology
    THEN <<<<"I", "'", "m", " ", "s", "o", "r", "r", "y", ",", " ", "I", " ", "e", "n", "c", "o", "u", "n", "t", "e", "r", "e", "d", " ", "a", "n", " ", "e", "r", "r", "o", "r", " ", "w", "h", "i", "l", "e", " ", "p", "r", "o", "c", "e", "s", "s", "i", "n", "g", " ", "y", "o", "u", "r", " ", "r", "e", "q", "u", "e", "s", "t">>,
           <<"P", "l", "e", "a", "s", "e", " ", "t", "r", "y", " ", "a", "g", "a", "i", "n">>, <<>>>>
    ELSE IF response = <<"formatted", "a1">> \/ response = <<"text", "a1">>
    THEN <<<<"D", "a", "l", " ", "i", "s", " ", "a", " ", "p", "u", "l", "s", "e", " ", "r", "i", "c", "h", " ", "i", "n", " ", "p", "r", "o", "t", "e", "i", "n">>, <<"E", "a", "t", " ", "i", "t", " ", "w", "i", "t", "h", " ", "r", "o", "t", "i">>, <<>>>>
    ELSE LET parts == SplitAt(response, ".", 1, <<>>, <<>>)
         IN  [i \in 1..Len(parts) |-> Strip(parts[i])]

common_words ==
    {<<"w", "h", "a", "t">>, <<"i", "s">>, <<"a", "r", "e">>, <<"t", "h", "e">>, <<"a">>, <<"a", "n">>, <<"a", "n", "d">>, <<"o", "r">>, <<"b", "u", "t">>, <<"i", "n">>, <<"o", "n">>, <<"a", "t">>, <<"t", "o">>,
     <<"f", "o", "r">>, <<"w", "i", "t", "h">>, <<"a", "b", "o", "u", "t">>, <<"h", "o", "w">>, <<"w", "h", "y">>, <<"w", "h", "e", "n">>, <<"w", "h", "e", "r", "e">>}

nutritional_terms ==
    {<<"p", "r", "o", "t", "e", "i", "n">>, <<"c", "a", "r", "b", "o", "h", "y", "d", "r", "a", "t", "e">>, <<"f", "a", "t">>, <<"f", "i", "b", "e", "r">>, <<"v", "i", "t", "a", "m", "i", "n">>, <<"m", "i", "n", "e", "r", "a", "l">>, <<"c", "a", "l", "o", "r", "i", "e">>,
     <<"n", "u", "t", "r", "i", "t", "i", "o", "n">>}

ayurvedic_terms ==
    {<<"d", "o", "s", "h", "a">>, <<"v", "a", "t", "a">>, <<"p", "i", "t", "t", "a">>, <<"k", "a", "p", "h", "a">>, <<"a", "y", "u", "r", "v", "e", "d", "a">>, <<"h", "e", "r", "b", "a", "l">>, <<"m", "e", "d", "i", "c", "i", "n", "e">>, <<"t", "r", "e", "a", "t", "m", "e", "n", "t">>}

\* extract_key_concepts(query): the set behind list(set(key_concepts)). The queries
\* are letters and blanks, for which re.findall(r'\b\w+\b') gives the blank-separated
\* words.
extract_key_concepts(query) ==
    LET words == Split(Lower(query))
    IN  {words[i] : i \in {j \in 1..Len(words) :
                              words[j] \notin common_words /\ Len(words[j]) > 2}}
            \cup {term \in nutritional_terms \cup ayurvedic_terms :
                     Contains(Lower(query), term)}

\* lines 245-252: the sentences of the response kept as definitions of a concept.
RECURSIVE DefinitionsIn(_, _)
DefinitionsIn(sentences, concept) ==
    IF sentences = <<>> THEN <<>>
    ELSE LET sentence == Head(sentences)
             rest == DefinitionsIn(Tail(sentences), concept)
         IN  IF /\ Contains(Lower(sentence), Lower(concept))
                /\ Len(sentence) > 20
                /\ Contains(Lower(SubSeq(sentence, 1, Min(50, Len(sentence)))),
                            Lower(concept))
             THEN <<sentence>> \o rest
             ELSE rest

\* ExpandConcept keeping every related query.
ExpandConcept_KeepsAllQueries(expansion, concept, query, response) ==
    LET created == IF concept \in DOMAIN expansion THEN expansion
                   ELSE expansion @@ (concept :> [definitions |-> <<>>, examples |-> <<>>,
                                                  related_queries |-> <<>>,
                                                  confidence_score |-> 0])
        found == DefinitionsIn(SentencesOf(response), concept)
        old == created[concept]
    IN  [created EXCEPT ![concept] =
            [definitions |-> LastN(old.definitions \o found, 5),
             examples |-> old.examples,
             related_queries |-> IF \E i \in 1..Len(old.related_queries) :
                                        old.related_queries[i] = query
                                 THEN old.related_queries
                                 ELSE Append(old.related_queries, query),
             confidence_score |-> old.confidence_score + Len(found)]]

\* lines 237-264: what expand_knowledge does for one concept; confidence_score in
\* tenths.
ExpandConcept(expansion, concept, query, response) ==
    LET created == IF concept \in DOMAIN expansion THEN expansion
                   ELSE expansion @@ (concept :> [definitions |-> <<>>, examples |-> <<>>,
                                                  related_queries |-> <<>>,
                                                  confidence_score |-> 0])
        found == DefinitionsIn(SentencesOf(response), concept)
        old == created[concept]
        related == IF \E i \in 1..Len(old.related_queries) : old.related_queries[i] = query
                   THEN old.related_queries
                   ELSE Append(old.related_queries, query)
    IN  [created EXCEPT ![concept] =
            [definitions |-> LastN(old.definitions \o found, 5),
             examples |-> old.examples,
             related_queries |-> LastN(related, 10),
             confidence_score |-> old.confidence_score + Len(found)]]

\* expand_knowledge(query, response, key_concepts): the concepts are updated one by
\* one, each update touching its own entry only.
RECURSIVE expand_knowledge(_, _, _, _)
expand_knowledge(expansion, query, response, key_concepts) ==
    IF key_concepts = {} THEN expansion
    ELSE LET concept == CHOOSE c \in key_concepts : TRUE
         IN  expand_knowledge(ExpandConcept(expansion, concept, query, response),
                              query, response, key_concepts \ {concept})

\* EscapeChar writing every character as it is.
EscapeChar_Raw(ch) == <<ch>>

\* json.dump of a str: the text between quotes, with the quote, the backslash and the
\* newline escaped (ensure_ascii=False leaves every other character as it is).
EscapeChar(ch) ==
    IF ch = "\"" THEN <<"\\", "\"">>
    ELSE IF ch = "\\" THEN <<"\\", "\\">>
    ELSE IF ch = "\n" THEN <<"\\", "n">>
    ELSE <<ch>>

RECURSIVE Escaped(_)
Escaped(text) ==
    IF text = <<>> THEN <<>> ELSE EscapeChar(Head(text)) \o Escaped(Tail(text))

JsonString(text) == <<"\"">> \o Escaped(text) \o <<"\"">>

\* json.load of a string literal: the characters between the quotes, each escape
\* replaced by the character it stands for.
RECURSIVE Unescaped(_)
Unescaped(chars) ==
    IF chars = <<>> THEN <<>>
    ELSE IF Head(chars) = "\\" /\ Len(chars) > 1
    THEN <<IF chars[2] = "n" THEN "\n" ELSE chars[2]>> \o Unescaped(Tail(Tail(chars)))
    ELSE <<Head(chars)>> \o Unescaped(Tail(chars))

ParseString(literal) == Unescaped(SubSeq(literal, 2, Len(literal) - 1))

\* json.dump and json.load of a value that has nothing to escape: a number, written
\* by repr and read back as the same int or float, and the strings made by the
\* program itself (isoformat() times, addresses, source names).
JsonPlain(value) == [literal |-> value]

ParsePlain(node) == node.literal

\* json.dump and json.load of a list: its items in order.
JsonArray(items, dump(_)) == [i \in 1..Len(items) |-> dump(items[i])]

\* json.dump and json.load of a dict with string keys that need no escape (digests,
\* words): one member per key.
JsonObject(dict, dump(_)) == [k \in DOMAIN dict |-> dump(dict[k])]

\* One source of a reply as json.dump writes it and json.load reads it.
DumpSource(x) ==
    [title |-> JsonString(x.title), content |-> JsonString(x.content),
     source |-> JsonPlain(x.source), similarity |-> JsonPlain(x.similarity)]

ParseSource(x) ==
    [title |-> ParseString(x.title), content |-> ParseString(x.content),
     source |-> ParsePlain(x.source), similarity |-> ParsePlain(x.similarity)]

\* One response entry of the learning database (app.py lines 190-196).
DumpResponse(r) ==
    [response |-> JsonString(r.response), sources |-> JsonArray(r.sources, DumpSource),
     timestamp |-> JsonPlain(r.timestamp), client_ip |-> JsonPlain(r.client_ip),
     feedback_score |-> JsonPlain(r.feedback_score)]

ParseResponse(r) ==
    [response |-> ParseString(r.response), sources |-> JsonArray(r.sources, ParseSource),
     timestamp |-> ParsePlain(r.timestamp), client_ip |-> ParsePlain(r.client_ip),
     feedback_score |-> ParsePlain(r.feedback_score)]

\* One entry of learning_database (app.py lines 181-188); key_concepts is kept as the
\* set of its items.
DumpEntry(e) ==
    [query |-> JsonString(e.query),
     key_concepts |-> {JsonString(c) : c \in e.key_concepts},
     responses |-> JsonArray(e.responses, DumpResponse),
     total_interactions |-> JsonPlain(e.total_interactions),
     success_score |-> JsonPlain(e.success_score)]

ParseEntry(e) ==
    [query |-> ParseString(e.query),
     key_concepts |-> {ParseString(c) : c \in e.key_concepts},
     responses |-> JsonArray(e.responses, ParseResponse),
     total_interactions |-> ParsePlain(e.total_interactions),
     success_score |-> ParsePlain(e.success_score)]

\* One entry of knowledge_expansion (app.py lines 239-244).
DumpConcept(c) ==
    [definitions |-> JsonArray(c.definitions, JsonString),
     examples |-> JsonArray(c.examples, JsonString),
     related_queries |-> JsonArray(c.related_queries, JsonString),
     confidence_score |-> JsonPlain(c.confidence_score)]

ParseConcept(c) ==
    [definitions |-> JsonArray(c.definitions, ParseString),
     examples |-> JsonArray(c.examples, ParseString),
     related_queries |-> JsonArray(c.related_queries, ParseString),
     confidence_score |-> ParsePlain(c.confidence_score)]

\* save_learning_database() at time t: the document written to LEARNING_DB_PATH over
\* the file that was there, and the number of times the file has been written.
\* feedback_scores and successful_responses are never written to and stay empty.
save_learning_database(file, database, expansion, t) ==
    [exists |-> TRUE,
     writes |-> file.writes + 1,
     learning_database |-> JsonObject(database, DumpEntry),
     feedback_scores |-> <<>>,
     successful_responses |-> <<>>,
     knowledge_expansion |-> JsonObject(expansion, DumpConcept),
     last_updated |-> JsonPlain(t)]

\* load_learning_database(): the globals after it, from the ones before it; a missing
\* file leaves them as they are.
load_learning_database(learned) ==
    IF ~learned.learning_file.exists THEN learned
    ELSE [learned EXCEPT
             !.learning_database = JsonObject(learned.learning_file.learning_database,
                                              ParseEntry),
             !.knowledge_expansion = JsonObject(learned.learning_file.knowledge_expansion,
                                                ParseConcept)]

\* learn_from_interaction(query, response, sources, client_ip) at time t; the query
\* signature is the digest of the lowered query, kept as the lowered query.
learn_from_interaction(learned, query, response, sources, client_ip, t) ==
    LET query_signature == Lower(query)
        key_concepts == extract_key_concepts(query)
        database == learned.learning_database
        created == IF query_signature \in DOMAIN database THEN database
                   ELSE database @@ (query_signature :>
                            [query |-> query, key_concepts |-> key_concepts,
                             responses |-> <<>>, total_interactions |-> 0,
                             success_score |-> 0])
        response_entry == [response |-> response, sources |-> sources, timestamp |-> t,
                           client_ip |-> client_ip, feedback_score |-> 0]
        stored == [created EXCEPT ![query_signature] =
                      [@ EXCEPT !.responses = LastN(Append(@, response_entry), 10),
                                !.total_interactions = @ + 1]]
        expansion == expand_knowledge(learned.knowledge_expansion, query, response,
                                      key_concepts)
    IN  [learning_database |-> stored,
         knowledge_expansion |-> expansion,
         learning_file |-> IF stored[query_signature].total_interactions % 5 = 0
                           THEN save_learning_database(learned.learning_file, stored,
                                                       expansion, t)
                           ELSE learned.learning_file]

\* 1.0 on the feedback scale: scores are kept in units that make the mean of up to
\* ten of them a whole number.
ScoreOne == 8 * 9 * 5 * 7

\* update_feedback(query_signature, response_index, feedback_score) at time t, for a
\* whole response_index and a score that is a number.
update_feedback(learned, query_signature, response_index, feedback_score, t) ==
    LET database == learned.learning_database
    IN  IF /\ query_signature \in DOMAIN database
           /\ 0 <= response_index
           /\ response_index < Len(database[query_signature].responses)
        THEN LET responses == [database[query_signature].responses
                                  EXCEPT ![response_index + 1].feedback_score =
                                             feedback_score]
                 total_score == SumSeq([i \in 1..Len(responses) |->
                                           responses[i].feedback_score])
                 stored == [database EXCEPT
                               ![query_signature].responses = responses,
                               ![query_signature].success_score =
                                   total_score \div Len(responses)]
             IN  [learning_database |-> stored,
                  knowledge_expansion |-> learned.knowledge_expansion,
                  learning_file |-> save_learning_database(learned.learning_file, stored,
                                                           learned.knowledge_expansion, t)]
        ELSE learned

\* submit_feedback() of app.py, lines 1087-1104, for a JSON body data at time t: the
\* learning state after it and the status of its reply.
submit_feedback(learned, data, t) ==
    LET query_signature == DictGet(data, "query_signature", PyNone)
        response_index == DictGet(data, "response_index", 0)
        feedback_score == DictGet(data, "feedback_score", 0)
    IN  IF query_signature \notin {PyNone, <<>>} /\ feedback_score # 0
        THEN [learned |-> update_feedback(learned, query_signature, response_index,
                                          feedback_score, t),
              status |-> 200]
        ELSE [learned |-> learned, status |-> 400]

\* (current_time - last_cleanup).seconds: the seconds field of a timedelta.
TimedeltaSeconds(delta) == delta % SecondsPerDay

\* Swept with the cutoff at the 300 s TTL instead of one hour.
Swept_AtTTL(cache, cutoff_time) ==
    Restrict(cache, {k \in DOMAIN cache :
                        ~(cache[k].timestamp < cutoff_time + CleanupCutoff - SearchTTL)})

\* The entries of a table the sweep keeps.
Swept(cache, cutoff_time) ==
    Restrict(cache, {k \in DOMAIN cache : ~(cache[k].timestamp < cutoff_time)})

\* CleanupDue without the 10-minute gate.
CleanupDue_Always(t, last) == TRUE

\* cleanup_cache() called at time t: whether it sweeps.
CleanupDue(t, last) == ~(TimedeltaSeconds(t - last) < CleanupInterval)

\* ------------------------------------------------------ search specification

\* (query, top_k, threshold): top_k and threshold as app.py's chat and api/chat.py's chat
\* pass them.
SearchCalls == {<<Q_dal, 3, 50>>, <<Q_dal, 5, 0>>, <<Q_DalRoti, 3, 50>>}

SearchInit ==
    /\ now = StartTime
    /\ kb_docs \in {<<>>, CorpusA}
    /\ CacheStart
    /\ RLStart
    /\ RLIdle
    /\ MemStart
    /\ LearnStart
    /\ ChatIdle
    /\ TrainIdle
    /\ ConcIdle

Tick(d) ==
    /\ ticks < CacheMaxTicks
    /\ ticks' = ticks + 1
    /\ now' = now + d
    /\ UNCHANGED <<kb_docs, cacheVars, op, ops, nonCacheVars>>

SearchKB(query, top_k, threshold, embed, max_ops) ==
    /\ ops < max_ops
    /\ ops' = ops + 1
    /\ \E r \in {search_knowledge_base(kb_docs, search_cache, query, top_k, threshold,
                                        now, embed)} :
           /\ search_cache' = r.cache
           /\ now' = now + r.elapsed
           /\ op' = [name |-> "search", query |-> query, top_k |-> top_k,
                     threshold |-> threshold, embed |-> embed, at |-> now,
                     before |-> Lookup(search_cache,
                                       get_cache_key(query, SearchContext(top_k, threshold))),
                     ret |-> r.ret, path |-> r.path, embed_calls |-> r.embed_calls,
                     scored |-> r.scored, elapsed |-> r.elapsed,
                     log |-> IF r.path = "no_docs" THEN <<>>
                             ELSE <<Looked("kb_search", search_cache,
                                           get_cache_key(query, SearchContext(top_k, threshold)),
                                           now, r.path = "cached")>>,
                     failed |-> {}]
    /\ UNCHANGED <<kb_docs, response_cache, research_cache, embedding_cache, last_cleanup,
                   ticks, nonCacheVars>>

CleanupCache ==
    /\ ops < CacheMaxOps
    /\ ops' = ops + 1
    /\ IF CleanupDue(now, last_cleanup)
       THEN /\ response_cache' = Swept(response_cache, now - CleanupCutoff)
            /\ search_cache' = Swept(search_cache, now - CleanupCutoff)
            /\ last_cleanup' = now
       ELSE UNCHANGED <<response_cache, search_cache, last_cleanup>>
    /\ op' = [name |-> "cleanup", at |-> now, swept |-> CleanupDue(now, last_cleanup),
              log |-> <<>>, failed |-> {},
              before |-> [search_cache |-> search_cache, response_cache |-> response_cache,
                          research_cache |-> research_cache,
                          embedding_cache |-> embedding_cache,
                          last_cleanup |-> last_cleanup]]
    /\ UNCHANGED <<now, kb_docs, research_cache, embedding_cache, ticks, nonCacheVars>>

SearchNext ==
    \/ \E d \in {1, 299} : Tick(d)
    \/ \E c \in SearchCalls, e \in EmbedBehaviours({<<3, 4>>, NoneEmbedding}) :
           SearchKB(c[1], c[2], c[3], e, CacheMaxOps)

SpecSearch == SearchInit /\ [][SearchNext]_vars

\* ----------------------------------------------------- ranking specification

\* Bound of the ranking specification: searches per run.
RankMaxOps == 1

RankInit ==
    /\ now = StartTime
    /\ kb_docs \in AllCorpora
    /\ CacheStart
    /\ RLStart
    /\ RLIdle
    /\ MemStart
    /\ LearnStart
    /\ ChatIdle
    /\ TrainIdle
    /\ ConcIdle

\* The collaborator answers at once, or fails every request.
RankBehaviours == [fails : {0, MaxRetries}, vec : QueryVecs]

RankNext ==
    \E q \in AllQueries, k \in AllTopK, th \in AllThresholds, e \in RankBehaviours :
        SearchKB(q, k, th, e, RankMaxOps)

SpecRank == RankInit /\ [][RankNext]_vars

\* ------------------------------------------------------- cache specification

\* Requests to search, to compose a response and to sweep, with the clock advancing
\* between them by steps that reach each TTL, the sweep interval and the cutoff.

CacheSteps == {1, 299, 599, 1799, 3599}

CacheEmbeds == {[fails |-> 0, vec |-> <<3, 4>>]}

CacheWorlds == Worlds(CacheEmbeds, {{}, {1}}, {AnswerDal})

CacheInit ==
    /\ now = StartTime
    /\ RLStart
    /\ RLIdle
    /\ MemStart
    /\ LearnStart
    /\ ChatIdle
    /\ TrainIdle
    /\ ConcIdle
    /\ kb_docs = CorpusA
    /\ CacheStart

\* The tables and the clock after an operation that ended in state st.
Leave(st) ==
    /\ search_cache' = st.search_cache
    /\ research_cache' = st.research_cache
    /\ response_cache' = st.response_cache
    /\ now' = st.t

GenerateResponse(query, context_docs, client_ip, world) ==
    /\ ops < CacheMaxOps
    /\ ops' = ops + 1
    /\ \E r \in {generate_response(Enter(search_cache, research_cache, response_cache, now),
                                    kb_docs, conversation_memory, query, context_docs,
                                    client_ip, world)} :
           /\ Leave(r.st)
           /\ op' = [name |-> "generate_response", query |-> query, client |-> client_ip,
                     at |-> now, ret |-> r.ret, path |-> r.path, log |-> r.st.log,
                     failed |-> r.st.failed, completes |-> r.st.completes]
    /\ UNCHANGED <<kb_docs, embedding_cache, last_cleanup, ticks, nonCacheVars>>

CacheNext ==
    \/ \E d \in CacheSteps : Tick(d)
    \/ \E e \in CacheEmbeds : SearchKB(Q_dal, 3, 50, e, CacheMaxOps)
    \/ \E q \in {Q_dal, Q_more_dal}, w \in CacheWorlds :
           GenerateResponse(q, <<>>, PlainClient, w)
    \/ CleanupCache

SpecCache == CacheInit /\ [][CacheNext]_vars

\* ------------------------------------------- shared-responses specification

\* generate_response called for several clients, with and without context documents,
\* and with queries that contain the separators of the key: ':' and '_', the digits of
\* a client address, and the text of a digest.

ShareMaxOps == 3

\* Client addresses whose text is "1" and "1:1".
ShareClients == {NoClient, <<1>>, <<1, 1>>}

ShareDocs == {<<>>, <<DocDal>>}

\* The collaborators answer every request.
ShareWorld == [embed |-> [fails |-> 0, vec |-> <<3, 4>>], fail_at |-> {}, answer |-> AnswerDal]

IdsOf(context_docs) == [i \in 1..Len(context_docs) |-> context_docs[i].id]

\* op.owners: for every key of the response cache, the call that stored its entry.
ShareInit ==
    /\ now = StartTime
    /\ RLStart
    /\ RLIdle
    /\ MemStart
    /\ LearnStart
    /\ ChatIdle
    /\ TrainIdle
    /\ ConcIdle
    /\ kb_docs = CorpusA
    /\ search_cache = <<>>
    /\ response_cache = <<>>
    /\ research_cache = <<>>
    /\ embedding_cache = <<>>
    /\ last_cleanup = StartTime
    /\ op = [name |-> "none", owners |-> <<>>]
    /\ ticks = 0
    /\ ops = 0

\* The response TTL passes, once.
ShareTick ==
    /\ ticks = 0
    /\ ticks' = ticks + 1
    /\ now' = now + ResponseTTL
    /\ UNCHANGED <<kb_docs, cacheVars, op, ops, nonCacheVars>>

Compose(query, context_docs, client_ip, world) ==
    /\ ops < ShareMaxOps
    /\ ops' = ops + 1
    /\ \E r \in {generate_response(Enter(search_cache, research_cache, response_cache, now),
                                    kb_docs, conversation_memory, query, context_docs,
                                    client_ip, world)},
          key \in {get_cache_key(query, ResponseContext(context_docs, client_ip))} :
           /\ Leave(r.st)
           /\ op' = [name |-> "compose", query |-> query, ids |-> IdsOf(context_docs),
                     client |-> client_ip, at |-> now, ret |-> r.ret, path |-> r.path,
                     stored_by |-> IF key \in DOMAIN op.owners THEN <<op.owners[key]>>
                                   ELSE <<>>,
                     owners |-> IF r.path = "generated"
                                THEN [k \in DOMAIN op.owners \cup {key} |->
                                         IF k = key
                                         THEN [query |-> query, ids |-> IdsOf(context_docs),
                                               client |-> client_ip]
                                         ELSE op.owners[k]]
                                ELSE op.owners]
    /\ UNCHANGED <<kb_docs, embedding_cache, last_cleanup, ticks, nonCacheVars>>

ShareNext ==
    \/ ShareTick
    \/ \E q \in ShareQueries, docs \in ShareDocs, c \in ShareClients :
           Compose(q, docs, c, ShareWorld)

SpecShare == ShareInit /\ [][ShareNext]_vars

\* ------------------------------------------------- long-pause specification

\* The server is left without requests for ten minutes, for a day, or for a day and
\* ten minutes, and then searches and sweeps.

LongSteps == {CleanupInterval - 1, CleanupInterval, SecondsPerDay - 1, SecondsPerDay,
              SecondsPerDay + CleanupInterval - 1, SecondsPerDay + CleanupInterval}

LongNext ==
    \/ \E d \in LongSteps : Tick(d)
    \/ \E e \in CacheEmbeds : SearchKB(Q_dal, 3, 50, e, CacheMaxOps)
    \/ CleanupCache

SpecLongPause == CacheInit /\ [][LongNext]_vars

\* ---------------------------------------------------- learning specification

\* Interactions learned and feedback submitted one after another, and restarts of the
\* process, which loads the learning database again.

LearnMaxOps == 3

\* A response and a source holding the characters json.dump escapes.
R_quoted == <<"D", "a", "l", " ", "i", "s", " ", "\"", "t", "o", "o", "r", "\"", " ", "o", "r", "\n", "m", "o", "o", "n", "g", "\\", "g", "r", "a", "m", ".", " ", "O", "k", "\\">>

SrcQuoted ==
    [title |-> <<"T", "h", "e", " ", "\"", "D", "a", "l", "\"">>, content |-> <<"a", "\\", "n">>,
     source |-> "knowledge_base", similarity |-> 80]

LearnInputs ==
    {[query |-> Q_dal, response |-> <<"formatted", "a1">>, sources |-> <<>>],
     [query |-> T_Dal, response |-> R_quoted, sources |-> <<SrcQuoted>>]}

\* The bodies of feedback requests: a score for the first or second response of
\* 'dal', for a response that is not stored, for an unknown signature, and the score 0.
FeedbackInputs ==
    {"query_signature" :> Q_dal @@ "feedback_score" :> ScoreOne,
     "query_signature" :> Q_dal @@ "response_index" :> 1 @@ "feedback_score" :> -ScoreOne,
     "query_signature" :> Q_dal @@ "response_index" :> 10 @@ "feedback_score" :> ScoreOne,
     "query_signature" :> Q_oil @@ "response_index" :> 0 @@ "feedback_score" :> ScoreOne,
     "query_signature" :> Q_dal @@ "response_index" :> 0 @@ "feedback_score" :> 0}

\* The learning globals.
Learned ==
    [learning_database |-> learning_database, knowledge_expansion |-> knowledge_expansion,
     learning_file |-> learning_file]

\* The learning globals after n interactions 'dal' since the first start.
RECURSIVE LearnedAfter(_)
LearnedAfter(n) ==
    IF n = 0
    THEN [learning_database |-> <<>>, knowledge_expansion |-> <<>>, learning_file |-> NoFile]
    ELSE learn_from_interaction(LearnedAfter(n - 1), Q_dal, <<"formatted", "a1">>, <<>>,
                                PlainClient, StartTime)

\* The process has just started for the first time, or has since learned four
\* interactions.
LearnInit ==
    /\ now = StartTime
    /\ \E n \in {0, 4} :
           /\ learning_database = LearnedAfter(n).learning_database
           /\ knowledge_expansion = LearnedAfter(n).knowledge_expansion
           /\ learning_file = LearnedAfter(n).learning_file
    /\ RLStart
    /\ RLIdle
    /\ MemStart
    /\ ChatIdle
    /\ TrainIdle
    /\ ConcIdle
    /\ kb_docs = <<>>
    /\ CacheStart

LearnLeave(name, input, r, status) ==
    /\ ops < LearnMaxOps
    /\ ops' = ops + 1
    /\ learning_database' = r.learning_database
    /\ knowledge_expansion' = r.knowledge_expansion
    /\ learning_file' = r.learning_file
    /\ op' = [name |-> name, input |-> input, status |-> status, before |-> Learned,
              saved |-> r.learning_file.writes # learning_file.writes]
    /\ UNCHANGED <<now, rlVars, memVars, kb_docs, cacheVars, ticks, chatVars, trainVars, concVars>>

\* One served interaction reaches learn_from_interaction (app.py line 1037).
Learn(x) ==
    \E r \in {learn_from_interaction(Learned, x.query, x.response, x.sources,
                                     PlainClient, now)} :
        LearnLeave("learn", x, r, 200)

\* One request to /api/feedback.
Feedback(data) ==
    \E r \in {submit_feedback(Learned, data, now)} :
        LearnLeave("feedback", data, r.learned, r.status)

\* The process ends and starts again (app.py lines 1105-1118): the learning globals
\* are empty (lines 63-66) until load_learning_database reads the file.
Restart ==
    \E r \in {load_learning_database([learning_database |-> <<>>,
                                      knowledge_expansion |-> <<>>,
                                      learning_file |-> learning_file])} :
        LearnLeave("restart", <<>>, r, 0)

LearnNext ==
    \/ \E x \in LearnInputs : Learn(x)
    \/ \E data \in FeedbackInputs : Feedback(data)
    \/ Restart

SpecLearn == LearnInit /\ [][LearnNext]_vars

\* ------------------------------------------------------ knowledge-base load

\* A document of kb.json as json.load gives it: no 'embedding' yet.
Raw(doc) == [doc EXCEPT !.embedding = <<>>]

\* The vector the embedding collaborator answers for a document's f"{title} {content}";
\* it stands for the text it was made from.
EmbedOf(doc) == <<Len(doc.title), Len(doc.content)>>

\* embeddings_cache.json: absent, unreadable (json.load raises), or a mapping from
\* document id to vector.
NoCacheFile == [exists |-> FALSE, readable |-> FALSE, data |-> <<>>]

CorruptCacheFile == [exists |-> TRUE, readable |-> FALSE, data |-> <<>>]

CacheFile(data) == [exists |-> TRUE, readable |-> TRUE, data |-> data]

\* MayRequest without the embeddings_failed flag.
MayRequest_Always(acc) == TRUE

\* line 506: if not embeddings_failed
MayRequest(acc) == ~acc.failed

\* lines 496-526: the loop over the documents, from document i on. acc holds
\* processed_docs, cached_embeddings, embeddings_failed and the embedding requests made
\* so far; the requests whose ordinal is in fail_at raise.
RECURSIVE ProcessDocs(_, _, _, _)
ProcessDocs(raw, i, acc, fail_at) ==
    IF i > Len(raw) THEN acc
    ELSE LET doc == raw[i]
         IN  IF doc.id \in DOMAIN acc.cached
             THEN ProcessDocs(raw, i + 1,
                      [acc EXCEPT !.processed =
                          Append(@, [doc EXCEPT !.embedding = acc.cached[doc.id]])],
                      fail_at)
             ELSE IF MayRequest(acc)
             THEN IF (Len(acc.requests) + 1) \in fail_at
                  THEN ProcessDocs(raw, i + 1,
                           [acc EXCEPT !.processed = Append(@, doc),
                                       !.failed = TRUE,
                                       !.requests = Append(@, [doc |-> i, ok |-> FALSE])],
                           fail_at)
                  ELSE ProcessDocs(raw, i + 1,
                           [acc EXCEPT !.processed =
                                           Append(@, [doc EXCEPT !.embedding = EmbedOf(doc)]),
                                       !.cached = (doc.id :> EmbedOf(doc)) @@ @,
                                       !.requests = Append(@, [doc |-> i, ok |-> TRUE])],
                           fail_at)
             ELSE ProcessDocs(raw, i + 1, [acc EXCEPT !.processed = Append(@, doc)],
                              fail_at)

\* load_knowledge_base(), lines 465-540, with kb.json as kb_file and
\* embeddings_cache.json as cache_file: the corpus and the cache file it leaves, and
\* what the loop did.
load_knowledge_base(docs, kb_file, cache_file, fail_at) ==
    IF ~kb_file.exists
    THEN [kb_docs |-> docs, cache_file |-> cache_file, cached |-> <<>>, failed |-> FALSE,
          requests |-> <<>>]
    ELSE LET cached_embeddings == IF cache_file.exists /\ cache_file.readable
                                  THEN cache_file.data ELSE <<>>
             done == ProcessDocs(kb_file.rows, 1,
                                 [processed |-> <<>>, cached |-> cached_embeddings,
                                  failed |-> FALSE, requests |-> <<>>],
                                 fail_at)
         IN  [kb_docs |-> done.processed,
              cache_file |-> IF DOMAIN done.cached # {} /\ ~done.failed
                             THEN CacheFile(done.cached) ELSE cache_file,
              cached |-> done.cached, failed |-> done.failed, requests |-> done.requests]

\* ----------------------------------------------------- load specification

\* The process is started, and started again, with one kb.json or another; the cache
\* file stays between the starts. op.cache_file is embeddings_cache.json.

LoadMaxOps == 2

\* A second document with the id 'dal'.
DocDalTwin == Doc("dal", T_MoongDal, T_moong_dal, T_pulse, <<>>)

KbFiles ==
    {NoCsv,
     [exists |-> TRUE, rows |-> <<Raw(DocDal), Raw(DocRoti)>>],
     [exists |-> TRUE, rows |-> <<Raw(DocDal), Raw(DocRoti), Raw(DocGhee), DocDalTwin>>],
     [exists |-> TRUE, rows |-> <<Raw(DocGhee), DocDalTwin, Raw(DocMoong), Raw(DocDal)>>]}

\* The embedding requests of one load that fail, by ordinal.
LoadFailures == {{}, {1}, {2}, {3}, {1, 2, 3, 4}}

LoadInit ==
    /\ now = StartTime
    /\ kb_docs = <<>>
    /\ op \in {[name |-> "none", cache_file |-> f] : f \in {NoCacheFile, CorruptCacheFile}}
    /\ RLStart
    /\ RLIdle
    /\ MemStart
    /\ LearnStart
    /\ ChatIdle
    /\ TrainIdle
    /\ ConcIdle
    /\ search_cache = <<>>
    /\ response_cache = <<>>
    /\ research_cache = <<>>
    /\ embedding_cache = <<>>
    /\ last_cleanup = StartTime
    /\ ticks = 0
    /\ ops = 0

\* The process starts: the corpus is empty (line 40) and load_knowledge_base runs
\* (line 1109).
LoadKnowledgeBase(kb_file, fail_at) ==
    /\ ops < LoadMaxOps
    /\ ops' = ops + 1
    /\ \E r \in {load_knowledge_base(<<>>, kb_file, op.cache_file, fail_at)} :
           /\ kb_docs' = r.kb_docs
           /\ op' = [name |-> "load", kb_file |-> kb_file, fail_at |-> fail_at,
                     file_before |-> op.cache_file, cache_file |-> r.cache_file,
                     cached |-> r.cached, failed |-> r.failed, requests |-> r.requests]
    /\ UNCHANGED <<now, rlVars, memVars, cacheVars, ticks, learnVars, chatVars, trainVars,
                   concVars>>

LoadNext == \E kb_file \in KbFiles, fail_at \in LoadFailures : LoadKnowledgeBase(kb_file, fail_at)

SpecLoad == LoadInit /\ [][LoadNext]_vars

\* ------------------------------------------------ learning caps specification

\* learn_from_interaction called once a second, from an empty learning state or from one
\* that stands at its caps: twelve interactions about 'dal', ten of them with the
\* signature 'dal', asked in ten different spellings.

CapMaxOps == 3

WarmQueries ==
    <<<<"d", "a", "l">>, <<"D", "a", "l">>, <<"d", "A", "l">>, <<"d", "a", "L">>, <<"D", "A", "l">>, <<"D", "a", "L">>, <<"d", "A", "L">>, <<"D", "A", "L">>, <<"d", "a", "l">>, <<"d", "a", "l">>, <<"d", "a", "l", " ", "d", "a", "l">>, <<"D", "a", "l", " ", "d", "a", "l">>>>

CapInputs ==
    {[query |-> <<"d", "a", "l">>, response |-> <<"formatted", "a1">>, sources |-> <<>>],
     [query |-> <<"D", "a", "l">>, response |-> R_quoted, sources |-> <<SrcQuoted>>],
     [query |-> <<"d", "a", "l", " ", "r", "o", "t", "i">>, response |-> <<"formatted", "a1">>, sources |-> <<>>],
     [query |-> <<"r", "o", "t", "i", " ", "d", "a", "l">>, response |-> R_quoted, sources |-> <<>>]}

\* The response entry of an interaction, as line 192-198 build it.
EntryOf(response, sources, t) ==
    [response |-> response, sources |-> sources, timestamp |-> t,
     client_ip |-> PlainClient, feedback_score |-> 0]

\* Every response entry ever made, by signature, with one more.
Logged(history, query, entry) ==
    [s \in DOMAIN history \cup {Lower(query)} |->
        IF s = Lower(query)
        THEN Append(IF s \in DOMAIN history THEN history[s] ELSE <<>>, entry)
        ELSE history[s]]

\* The learning globals, and every entry made, after the first n warm interactions.
RECURSIVE WarmedUp(_)
WarmedUp(n) ==
    IF n = 0
    THEN [learned |-> [learning_database |-> <<>>, knowledge_expansion |-> <<>>,
                       learning_file |-> NoFile],
          history |-> <<>>]
    ELSE LET earlier == WarmedUp(n - 1)
         IN  [learned |-> learn_from_interaction(earlier.learned, WarmQueries[n],
                                                 <<"formatted", "a1">>, <<>>, PlainClient,
                                                 StartTime + n),
              history |-> Logged(earlier.history, WarmQueries[n],
                                 EntryOf(<<"formatted", "a1">>, <<>>, StartTime + n))]

CapInit ==
    /\ \E n \in {0, Len(WarmQueries)} : \E w \in {WarmedUp(n)} :
           /\ now = StartTime + n + 1
           /\ learning_database = w.learned.learning_database
           /\ knowledge_expansion = w.learned.knowledge_expansion
           /\ learning_file = w.learned.learning_file
           /\ op = [name |-> "none", history |-> w.history]
    /\ RLStart
    /\ RLIdle
    /\ MemStart
    /\ ChatIdle
    /\ TrainIdle
    /\ ConcIdle
    /\ kb_docs = <<>>
    /\ search_cache = <<>>
    /\ response_cache = <<>>
    /\ research_cache = <<>>
    /\ embedding_cache = <<>>
    /\ last_cleanup = StartTime
    /\ ticks = 0
    /\ ops = 0

\* One served interaction reaches learn_from_interaction (app.py line 1037).
CapLearn(x) ==
    /\ ops < CapMaxOps
    /\ ops' = ops + 1
    /\ now' = now + 1
    /\ \E r \in {learn_from_interaction(Learned, x.query, x.response, x.sources,
                                        PlainClient, now)} :
           /\ learning_database' = r.learning_database
           /\ knowledge_expansion' = r.knowledge_expansion
           /\ learning_file' = r.learning_file
           /\ op' = [name |-> "learn", input |-> x, before |-> Learned,
                     saved |-> r.learning_file.writes # learning_file.writes,
                     history |-> Logged(op.history, x.query,
                                        EntryOf(x.response, x.sources, now))]
    /\ UNCHANGED <<rlVars, memVars, kb_docs, search_cache, response_cache, research_cache,
                   embedding_cache, last_cleanup, ticks, chatVars, trainVars, concVars>>

CapNext == \E x \in CapInputs : CapLearn(x)

SpecLearnCaps == CapInit /\ [][CapNext]_vars

\* ------------------------------------------------------------------ training

\* train_chat_model.py: the two CSV sources are read into one corpus, from which the
\* BM25 model is built and written to trained_model.json. A CSV file exists or not
\* and has rows, a row being a function from column names to cell texts. The columns
\* of the second source, whose names carry a Devanagari gloss, go by their English part.

UpperChar(ch) ==
    IF \E i \in 1..Len(LowerCase) : LowerCase[i] = ch
    THEN UpperCase[CHOOSE i \in 1..Len(LowerCase) : LowerCase[i] = ch]
    ELSE ch

\* str.capitalize()
Capitalize(text) ==
    [i \in 1..Len(text) |-> IF i = 1 THEN UpperChar(text[i]) ELSE LowerChar(text[i])]

\* tokenize(text): the maximal runs of letters of the lowered text.
RECURSIVE LetterRuns(_, _, _, _)
LetterRuns(text, i, word, words) ==
    IF i > Len(text)
    THEN IF word = <<>> THEN words ELSE Append(words, word)
    ELSE IF \E k \in 1..Len(LowerCase) : LowerCase[k] = text[i]
    THEN LetterRuns(text, i + 1, Append(word, text[i]), words)
    ELSE LetterRuns(text, i + 1, <<>>, IF word = <<>> THEN words ELSE Append(words, word))

tokenize(text) == LetterRuns(Lower(IF text = PyNone THEN <<>> ELSE text), 1, <<>>, <<>>)

\* (row.get(column) or "").strip()
Cell(row, column) ==
    LET value == DictGet(row, column, PyNone)
    IN  IF value = PyNone THEN <<>> ELSE Strip(value)

\* title.lower().replace(" ", "-")
Slug(title) == [i \in 1..Len(title) |-> IF title[i] = " " THEN "-" ELSE LowerChar(title[i])]

\* sep.join(parts)
RECURSIVE Join(_, _)
Join(sep, parts) ==
    IF parts = <<>> THEN <<>>
    ELSE IF Len(parts) = 1 THEN parts[1]
    ELSE parts[1] \o sep \o Join(sep, Tail(parts))

\* literal_eval of a nutrition or ayurveda cell inside try/except: the cell holds the
\* literal it denotes or is malformed (an empty cell is); a missing column reads as
\* "{}".
LiteralOrEmpty(row, column) ==
    LET cell == DictGet(row, column, [literal |-> <<>>])
    IN  IF "literal" \in DOMAIN cell THEN cell.literal ELSE <<>>

\* lines 21-43: the document made of one row of knowledge_base.csv.
Kb1Doc(row) ==
    LET title == Cell(row, "title")
        category == Cell(row, "category")
        content == Cell(row, "content")
        given == DictGet(row, "id", PyNone)
    IN  [id |-> IF given = PyNone \/ given = <<>> THEN Slug(title) ELSE given,
         title |-> title, category |-> category, content |-> content,
         nutrition |-> LiteralOrEmpty(row, "nutrition"),
         ayurveda |-> LiteralOrEmpty(row, "ayurveda"),
         tokens |-> tokenize(Join(<<" ">>, <<title, category, content>>))]

\* The keys of nutrition and ayurveda and the columns they are read from, in the
\* order of lines 63-72.
NutritionColumns ==
    <<[key |-> <<"c", "a", "l", "o", "r", "i", "e", "s">>, column |-> "Calories (per 100g)"],
      [key |-> <<"p", "r", "o", "t", "e", "i", "n">>, column |-> "Protein (g)"],
      [key |-> <<"c", "a", "r", "b", "s">>, column |-> "Carbs(g)"],
      [key |-> <<"f", "a", "t", "s">>, column |-> "Fats(g)"]>>

AyurvedaColumns ==
    <<[key |-> <<"r", "a", "s", "a">>, column |-> "Rasa (Taste)"],
      [key |-> <<"v", "i", "r", "y", "a">>, column |-> "Virya (Potency)"],
      [key |-> <<"g", "u", "n", "a">>, column |-> "Guna (Quality)"],
      [key |-> <<"v", "i", "p", "a", "k", "a">>, column |-> "Vipaka (Post-digestive)"],
      [key |-> <<"d", "o", "s", "h", "a", "_", "e", "f", "f", "e", "c", "t", "s">>,
       column |-> "Suitable for (Vata/Pitta/Kapha)"]>>

\* The dict filled from the non-empty cells of the columns: its items in order.
Filled(row, columns) ==
    LET present == SelectSeq(columns, LAMBDA c : Cell(row, c.column) # <<>>)
    IN  [i \in 1..Len(present) |->
            [key |-> present[i].key, value |-> Cell(row, present[i].column)]]

\* ", ".join([f"{k.capitalize()}: {v}" for k, v in items])
Listed(items) ==
    Join(<<",", " ">>,
         [i \in 1..Len(items) |-> Capitalize(items[i].key) \o <<":", " ">> \o items[i].value])

\* lines 47-90: the document made of one row of the second source, whose title is not
\* empty.
Kb2Doc(row) ==
    LET title == Cell(row, "Food Item")
        first == Cell(row, "Cereals,Pulses,Lentils & Legumes")
        category == IF first # <<>> THEN first ELSE Cell(row, "Category")
        notes == Cell(row, "Notes (Digestion / Special Effects)")
        nutrition == Filled(row, NutritionColumns)
        ayurveda == Filled(row, AyurvedaColumns)
        content_parts ==
            (IF notes # <<>> THEN <<notes>> ELSE <<>>)
            \o (IF nutrition # <<>>
                THEN <<<<"N", "u", "t", "r", "i", "t", "i", "o", "n", "a", "l", " ", "(", "p", "e", "r", " ", "1", "0", "0", "g", ")", ":", " ">> \o Listed(nutrition)>>
                ELSE <<>>)
            \o (IF ayurveda # <<>>
                THEN <<<<"A", "y", "u", "r", "v", "e", "d", "i", "c", ":", " ">> \o Listed(ayurveda)>>
                ELSE <<>>)
        content == Strip(Join(<<"\n">>, content_parts))
    IN  [id |-> Slug(title), title |-> title, category |-> category, content |-> content,
         nutrition |-> nutrition, ayurveda |-> ayurveda,
         tokens |-> tokenize(Join(<<" ">>, <<title, category, content>>))]

\* load_docs(): the documents of the rows of the first source, then those of the rows
\* of the second source that have a title; an absent file gives none.
load_docs(kb1, kb2) ==
    LET rows1 == IF kb1.exists THEN kb1.rows ELSE <<>>
        rows2 == IF kb2.exists
                 THEN SelectSeq(kb2.rows, LAMBDA row : Cell(row, "Food Item") # <<>>)
                 ELSE <<>>
    IN  [i \in 1..Len(rows1) |-> Kb1Doc(rows1[i])]
            \o [i \in 1..Len(rows2) |-> Kb2Doc(rows2[i])]

\* lines 99-101: the term counts of one document, token by token.
RECURSIVE TermCounts(_, _)
TermCounts(tokens, tf) ==
    IF tokens = <<>> THEN tf
    ELSE LET t == Head(tokens)
         IN  TermCounts(Tail(tokens),
                        IF t \in DOMAIN tf THEN [tf EXCEPT ![t] = @ + 1] ELSE tf @@ (t :> 1))

\* sum(tf.values())
RECURSIVE SumValues(_)
SumValues(tf) ==
    IF DOMAIN tf = {} THEN 0
    ELSE LET t == CHOOSE x \in DOMAIN tf : TRUE
         IN  tf[t] + SumValues(Restrict(tf, DOMAIN tf \ {t}))

\* DocFrequency adding the term's count in the document instead of 1.
DocFrequency_Occurrences(df, tf) ==
    [t \in DOMAIN df \cup DOMAIN tf |->
        (IF t \in DOMAIN df THEN df[t] ELSE 0) + (IF t \in DOMAIN tf THEN tf[t] ELSE 0)]

\* lines 104-105: df after the terms of one document are counted.
DocFrequency(df, tf) ==
    [t \in DOMAIN df \cup DOMAIN tf |->
        (IF t \in DOMAIN df THEN df[t] ELSE 0) + (IF t \in DOMAIN tf THEN 1 ELSE 0)]

\* lines 98-105: the loop over the documents from the i-th on.
RECURSIVE CountedFrom(_, _, _)
CountedFrom(docs, i, acc) ==
    IF i > Len(docs) THEN acc
    ELSE LET tf == TermCounts(docs[i].tokens, <<>>)
         IN  CountedFrom(docs, i + 1,
                         [df |-> DocFrequency(acc.df, tf), tfs |-> Append(acc.tfs, tf),
                          lengths |-> Append(acc.lengths, SumValues(tf))])

\* line 109: math.log((N - d + 0.5) / (d + 0.5) + 1.0), kept as the quotient of whole
\* numbers whose logarithm it is.
Idf(N, d) == [log_of |-> [num |-> (2 * (N - d) + 1) + (2 * d + 1), den |-> 2 * d + 1]]

\* build_bm25(docs) with the default k1 and b, which are kept as written.
build_bm25(docs) ==
    LET N == Len(docs)
        counted == CountedFrom(docs, 1, [df |-> <<>>, tfs |-> <<>>, lengths |-> <<>>])
    IN  [meta |-> [N |-> N,
                   avgdl |-> [num |-> SumSeq(counted.lengths), den |-> Max(N, 1)],
                   k1 |-> "1.5", b |-> "0.75"],
         idf |-> [t \in DOMAIN counted.df |-> Idf(N, counted.df[t])],
         docs |-> [i \in 1..N |->
                      [id |-> docs[i].id, len |-> counted.lengths[i],
                       tf |-> counted.tfs[i], title |-> docs[i].title,
                       category |-> docs[i].category, content |-> docs[i].content,
                       nutrition |-> docs[i].nutrition, ayurveda |-> docs[i].ayurveda]]]

\* ---------------------------------------------------- training specification

\* train_chat_model.py run once over the CSV sources found at its start.

TrainMaxRows == 2

\* Rows of knowledge_base.csv: with and without an id, two of one title, one with
\* content and nutrition, one whose nutrition cell is malformed.
Kb1Rows ==
    {"id" :> <<"k", "1">> @@ "title" :> T_Dal @@ "category" :> T_pulse,
     "title" :> T_Dal @@ "content" :> <<"d", "a", "l", " ", "d", "a", "l", ",", "2", "x", " ">>
         @@ "nutrition" :> [literal |-> <<[key |-> T_fat, value |-> 1]>>],
     "title" :> T_MoongDal @@ "category" :> T_pulse @@ "nutrition" :> [malformed |-> TRUE],
     "id" :> <<>> @@ "title" :> <<>>}

\* Rows of the second source: titles also found in the first, one without a title.
Kb2Rows ==
    {"Food Item" :> T_Dal @@ "Category" :> T_pulse @@ "Protein (g)" :> <<"2", "4">>
         @@ "Rasa (Taste)" :> <<"s", "w", "e", "e", "t">>,
     "Food Item" :> T_moong_dal @@ "Notes (Digestion / Special Effects)" :> <<"l", "i", "g", "h", "t">>,
     "Food Item" :> <<" ">> @@ "Category" :> T_pulse}

RowsUpTo(rows, n) == UNION {[1..k -> rows] : k \in 0..n}

CsvFiles(rows) == {NoCsv} \cup {[exists |-> TRUE, rows |-> r] : r \in RowsUpTo(rows, TrainMaxRows)}

TrainInit ==
    /\ now = StartTime
    /\ kb1_csv \in CsvFiles(Kb1Rows)
    /\ kb2_csv \in CsvFiles(Kb2Rows)
    /\ trained_model = NoFile
    /\ ConcIdle
    /\ RLStart
    /\ RLIdle
    /\ MemStart
    /\ LearnStart
    /\ ChatIdle
    /\ kb_docs = <<>>
    /\ CacheStart

\* main(), lines 128-133: the corpus is loaded, the model built and written to OUT.
TrainMain ==
    /\ ops = 0
    /\ ops' = 1
    /\ \E docs \in {load_docs(kb1_csv, kb2_csv)} :
           /\ trained_model' = [exists |-> TRUE, writes |-> trained_model.writes + 1,
                                model |-> build_bm25(docs)]
           /\ op' = [name |-> "train", docs |-> docs]
    /\ UNCHANGED <<now, rlVars, memVars, kb_docs, cacheVars, ticks, learnVars, chatVars,
                   kb1_csv, kb2_csv, concVars>>

TrainNext == TrainMain

SpecTrain == TrainInit /\ [][TrainNext]_vars

\* ------------------------------------------------------------ chat handlers

\* limit=10 of the chat handlers' rate_limit_check call.
ChatLimit == 10

\* The fixed messages of the replies.
TooManyRequests == <<"Too many requests. Please wait a moment before trying again.">>

InvalidFormat == <<"Invalid request format. Please send JSON data.">>

EnterMessage == <<"Please enter a message.">>

Trouble == <<"I'm having trouble generating a response. Please try again.">>

Unexpected == <<"An unexpected error occurred. Please try again later.">>

Initializing == <<"Chatbot is currently initializing. Please try again in a moment.">>

\* str(e) of the exceptions a request can meet.
ErrInt == <<"invalid literal for int() with base 10: ''">>

ErrStrip == <<"'NoneType' object has no attribute 'strip'">>

ErrLower == <<"'NoneType' object has no attribute 'lower'">>

ErrLang == <<"generate_response() got an unexpected keyword argument 'lang'">>

ErrCompletion == <<"the completion request failed">>

\* jsonify({'response': ..., 'sources': ...}), status
Reply(status, response, sources) ==
    [status |-> status, response |-> response, sources |-> sources]

\* A request: whether request.is_json holds, and the parsed body, a dict that may
\* have the key "message".
NotJson == [is_json |-> FALSE, data |-> <<>>]

Json(data) == [is_json |-> TRUE, data |-> data]

\* What a request works on: the tables and the clock of Enter, and the other globals
\* a chat request reads or writes.
EnterChat ==
    [search_cache |-> search_cache, research_cache |-> research_cache,
     response_cache |-> response_cache, t |-> now,
     completes |-> 0, embeds |-> 0, log |-> <<>>, failed |-> {},
     rate_limit_tracker |-> rate_limit_tracker,
     conversation_memory |-> conversation_memory,
     last_cleanup |-> last_cleanup,
     learned |-> [learning_database |-> learning_database,
                  knowledge_expansion |-> knowledge_expansion,
                  learning_file |-> learning_file]]

\* cleanup_cache()
cleanup_cache(st) ==
    IF CleanupDue(st.t, st.last_cleanup)
    THEN [st EXCEPT !.response_cache = Swept(@, st.t - CleanupCutoff),
                    !.search_cache = Swept(@, st.t - CleanupCutoff),
                    !.last_cleanup = st.t]
    ELSE st

\* The end of a request: the state it leaves, its reply, and the branch that replied.
Ended(st, reply, path) == [st |-> st, reply |-> reply, path |-> path]

\* UnexpectedError with str(e) as the message.
UnexpectedError_Leaks(e) == Reply(500, e, <<>>)

\* app.py lines 1072-1077: the outer except.
UnexpectedError(e) == Reply(500, Unexpected, <<>>)

\* app.py lines 1066-1070: the except of the direct completion.
FallbackError(e) == Reply(500, Trouble, <<>>)

\* api/chat.py lines 84-89: the except of the handler.
ApiError(e) == Reply(500, Trouble, <<>>)

\* app.py lines 1010-1020: the sources made of the knowledge-base results above 0.5;
\* the similarity text f"{similarity:.2f}" is kept as its number of hundredths.
RECURSIVE KBSources(_)
KBSources(kb_results) ==
    IF kb_results = <<>> THEN <<>>
    ELSE LET doc == Head(kb_results)
         IN  (IF doc.similarity > 50
              THEN <<[title |-> doc.title,
                      content |-> IF Len(doc.content) > 200
                                  THEN SubSeq(doc.content, 1, 200) \o <<"...">>
                                  ELSE doc.content,
                      source |-> "knowledge_base", similarity |-> doc.similarity]>>
              ELSE <<>>) \o KBSources(Tail(kb_results))

\* app.py lines 1023-1031: the sources made of the results of gemini_search.
SearchSources(gemini_results) ==
    [i \in 1..Len(gemini_results) |->
        [title |-> gemini_results[i].title, content |-> gemini_results[i].snippet,
         source |-> "gemini_search", similarity |-> 0]]

\* app.py line 1034: sources.sort(key=(source != 'knowledge_base', similarity),
\* reverse=True), a stable sort: the other sources in their order, then the
\* knowledge-base sources by descending similarity.
SortSources(sources) ==
    SelectSeq(sources, LAMBDA x : x.source # "knowledge_base")
        \o SortDesc(SelectSeq(sources, LAMBDA x : x.source = "knowledge_base"))

\* app.py lines 1049-1070: the direct completion tried when the request raised.
DirectAnswer(st, query, world, e) ==
    LET asked == [st EXCEPT !.completes = @ + 1]
    IN  IF CompletionOK(st, world)
        THEN Ended(asked,
                   Reply(200, <<"text", world.answer.token>>,
                         <<[title |-> <<"Generated by Gemini">>,
                            content |-> <<"This response was generated by Gemini based on general knowledge.">>,
                            source |-> "generated", similarity |-> 0]>>),
                   "direct")
        ELSE Ended(asked, FallbackError(ErrCompletion), "direct_failed")

\* app.py lines 995-1047: the inner try of chat for a query that passed validation.
Answer(st, docs, query, client_ip, world) ==
    Bind(NestedSearch(st, docs, query, 3, 50, world),
         LAMBDA kb :
            IF kb.raised THEN DirectAnswer(kb.st, query, world, ErrLower)
            ELSE
            Bind(generate_response(
                     kb.st, docs, kb.st.conversation_memory, query,
                     IF \E i \in 1..Len(kb.ret) : kb.ret[i].similarity > 50
                     THEN kb.ret ELSE <<>>,
                     client_ip, world),
                 LAMBDA gen :
                    Bind(gemini_search(
                             [gen.st EXCEPT !.conversation_memory =
                                 update_conversation_memory(@, client_ip, query, gen.ret,
                                                            gen.st.t)],
                             docs, query, 2, world),
                         LAMBDA gs :
                            IF gs.raised THEN DirectAnswer(gs.st, query, world, ErrLower)
                            ELSE
                            LET sources == SortSources(KBSources(kb.ret)
                                                          \o SearchSources(gs.ret))
                            IN  Ended([gs.st EXCEPT !.learned =
                                          learn_from_interaction(@, query, gen.ret, sources,
                                                                 client_ip, gs.st.t)],
                                      Reply(200, gen.ret, sources),
                                      "answered"))))

\* chat() of app.py, lines 963-1077.
chat(st, docs, request, client_ip, world) ==
    Bind(rate_limit_check(st.rate_limit_tracker, client_ip, ChatLimit, st.t),
         LAMBDA gate :
            LET gated == [st EXCEPT !.rate_limit_tracker = gate.tracker]
                message == DictGet(request.data, "message", <<>>)
            IN  IF gate.ret = "ValueError"
                THEN Ended(gated, UnexpectedError(ErrInt), "unexpected")
                ELSE IF gate.ret = "False"
                THEN Ended(gated, Reply(429, TooManyRequests, <<>>), "rejected")
                ELSE IF ~request.is_json
                THEN Ended(cleanup_cache(gated), Reply(400, InvalidFormat, <<>>), "invalid")
                ELSE IF message = PyNone
                THEN Ended(cleanup_cache(gated), UnexpectedError(ErrStrip), "unexpected")
                ELSE IF Strip(message) = <<>>
                THEN Ended(cleanup_cache(gated), Reply(400, EnterMessage, <<>>), "invalid")
                ELSE Bind(cleanup_cache(gated),
                          LAMBDA swept : Answer(swept, docs, Strip(message), client_ip, world)))

\* chat() of api/chat.py, lines 23-89; module is its app_module. generate_response has
\* no parameter lang, so the call of line 58 raises before anything of it runs.
api_chat(st, docs, module, request, client_ip, world) ==
    IF module = "None"
    THEN Ended(st, Reply(503, Initializing, <<>>), "not_ready")
    ELSE
    Bind(rate_limit_check(st.rate_limit_tracker, client_ip, ChatLimit, st.t),
         LAMBDA gate :
            LET gated == [st EXCEPT !.rate_limit_tracker = gate.tracker]
                message == DictGet(request.data, "message", PyNone)
                query == IF message = PyNone THEN <<>> ELSE Strip(message)
            IN  IF gate.ret = "ValueError"
                THEN Ended(gated, ApiError(ErrInt), "error")
                ELSE IF gate.ret = "False"
                THEN Ended(gated, Reply(429, TooManyRequests, <<>>), "rejected")
                ELSE IF ~request.is_json
                THEN Ended(cleanup_cache(gated), Reply(400, InvalidFormat, <<>>), "invalid")
                ELSE IF query = <<>>
                THEN Ended(cleanup_cache(gated), Reply(400, EnterMessage, <<>>), "invalid")
                ELSE Bind(NestedSearch(cleanup_cache(gated), docs, query, 5, 0, world),
                          LAMBDA kb :
                             Ended(kb.st,
                                   ApiError(IF kb.raised THEN ErrLower ELSE ErrLang),
                                   "error")))

\* -------------------------------------------------------- chat specification

\* Chat requests served one after another by one of the two handlers, with the clock
\* advancing between them.

ChatMaxOps == 2

ChatMaxTicks == 1

\* The clock step: past the sweep interval and the sweep's one-hour cutoff.
ChatSteps == {3601}

ChatClients == {PlainClient, LoopbackV6}

ChatRequests ==
    {NotJson, Json(<<>>), Json("message" :> PyNone), Json("message" :> <<" ", " ">>),
     Json("message" :> Q_dal), Json("message" :> <<" ">> \o Q_more_dal)}

\* The collaborators of one request: both answering, the embeddings failing, or both
\* failing at every request.
ChatWorlds ==
    {[embed |-> [fails |-> 0, vec |-> <<3, 4>>], fail_at |-> {}, answer |-> AnswerDal],
     [embed |-> [fails |-> MaxRetries, vec |-> <<3, 4>>], fail_at |-> {},
      answer |-> AnswerDal],
     [embed |-> [fails |-> MaxRetries, vec |-> <<3, 4>>], fail_at |-> 1..8,
      answer |-> AnswerDal]}

\* The process has just started (app.py as the main program, or imported by
\* api/chat.py, whose load_knowledge_base call raised when app_module is None; kb.json
\* missing leaves the corpus empty), or has since answered nine requests without a
\* JSON body from one client.
ChatInit ==
    /\ now = StartTime
    /\ chat_run = NoRun
    /\ TrainIdle
    /\ ConcIdle
    /\ \/ app_module = "unset" /\ kb_docs \in {<<>>, CorpusA, CorpusNull}
       \/ app_module = "app" /\ kb_docs \in {<<>>, CorpusA}
       \/ app_module = "None" /\ kb_docs = <<>>
    /\ rate_limit_tracker \in
           {<<>>} \cup {MinuteKey(PlainClient, MinuteOf(StartTime)) :> (ChatLimit - 1) :
                           x \in {kb_docs} \cap {CorpusA}}
    /\ rl_calls = [c \in Clients |-> 0]
    /\ rl_last = NoCall
    /\ rl_total = 0
    /\ RLIdle
    /\ MemStart
    /\ LearnStart
    /\ CacheStart

\* The globals before a request, as the claims compare them with the ones after.
Globals ==
    [search_cache |-> search_cache, response_cache |-> response_cache,
     research_cache |-> research_cache, conversation_memory |-> conversation_memory,
     learning_database |-> learning_database, knowledge_expansion |-> knowledge_expansion,
     learning_file |-> learning_file, last_cleanup |-> last_cleanup,
     rate_limit_tracker |-> rate_limit_tracker]

\* The globals and the clock after a request that ended as r.
ChatLeave(r, handler, request, client_ip, world) ==
    /\ Leave(r.st)
    /\ rate_limit_tracker' = r.st.rate_limit_tracker
    /\ conversation_memory' = r.st.conversation_memory
    /\ mem_log' = IF r.st.conversation_memory = conversation_memory THEN mem_log
                  ELSE [k \in DOMAIN mem_log \cup {client_ip} |->
                           IF k = client_ip
                           THEN Append(LogOf(client_ip),
                                       LET h == r.st.conversation_memory[client_ip]
                                       IN  h[Len(h)])
                           ELSE mem_log[k]]
    /\ last_cleanup' = r.st.last_cleanup
    /\ learning_database' = r.st.learned.learning_database
    /\ knowledge_expansion' = r.st.learned.knowledge_expansion
    /\ learning_file' = r.st.learned.learning_file
    /\ op' = [name |-> "chat", handler |-> handler, request |-> request,
              client |-> client_ip, at |-> now, reply |-> r.reply,
              path |-> r.path, completes |-> r.st.completes, embeds |-> r.st.embeds,
              log |-> r.st.log, failed |-> r.st.failed, before |-> Globals]
    /\ UNCHANGED <<kb_docs, embedding_cache, ticks, rl_calls, rl_last, rl_total, rl_pc,
                   rl_loc, chatVars, trainVars, concVars>>

\* One request to /api/chat handled by app.py.
Chat(request, client_ip, world) ==
    /\ app_module = "unset"
    /\ ops < ChatMaxOps
    /\ ops' = ops + 1
    /\ \E r \in {chat(EnterChat, kb_docs, request, client_ip, world)} :
           ChatLeave(r, "app", request, client_ip, world)

\* One request to /api/chat handled by api/chat.py.
ApiChat(request, client_ip, world) ==
    /\ app_module # "unset"
    /\ ops < ChatMaxOps
    /\ ops' = ops + 1
    /\ \E r \in {api_chat(EnterChat, kb_docs, app_module, request, client_ip, world)} :
           ChatLeave(r, "api", request, client_ip, world)

\* The clock advances between two requests.
ChatTick(d) ==
    /\ ticks < ChatMaxTicks
    /\ ticks' = ticks + 1
    /\ now' = now + d
    /\ UNCHANGED <<kb_docs, cacheVars, op, ops, nonCacheVars>>

ChatNext ==
    \/ \E d \in ChatSteps : ChatTick(d)
    \/ \E request \in ChatRequests, c \in ChatClients, w \in ChatWorlds :
           Chat(request, c, w)
    \/ \E request \in ChatRequests, c \in ChatClients, w \in ChatWorlds :
           ApiChat(request, c, w)

SpecChat == ChatInit /\ [][ChatNext]_vars

\* ------------------------------------------- chat specification, idle clients

\* Two clients with plain addresses send well-formed requests, the clock advancing by
\* more than the sweep's cutoff in between; the server serves every request that
\* arrives.

\* "10.0.0.2"
OtherClient == <<-3>>

IdleClients == {PlainClient, OtherClient}

IdleRequests == {Json("message" :> Q_dal), NotJson}

IdleNext ==
    \/ \E d \in ChatSteps : ChatTick(d)
    \/ \E request \in IdleRequests, c \in IdleClients :
           Chat(request, c, CHOOSE w \in ChatWorlds : w.embed.fails = 0)
    \/ \E request \in IdleRequests, c \in IdleClients :
           ApiChat(request, c, CHOOSE w \in ChatWorlds : w.embed.fails = 0)

SpecIdle == ChatInit /\ [][IdleNext]_vars /\ WF_vars(IdleNext)

\* ----------------------------------------- sweep and stores, concurrent requests

\* Requests served on threads of their own: each runs cleanup_cache (app.py line 977,
\* no lock is taken) and later stores its search result and its response. The steps
\* of the sweep interleave with the steps of the other requests.

SweepRequests == 2

SweepThreads == 1..SweepRequests

\* The process has run for a little over an hour: its last sweep is the start, and it has served
\* 'dal' 10 s after the start. No request is under way, or one that passed
\* cleanup_cache before the sweep was due is still waiting for its search.
SweepAge == CleanupCutoff + 100

SweepQueries == {Q_dal, Q_oil}

SearchKeyOf(query) == get_cache_key(query, SearchContext(3, 30))

ResponseKeyOf(query) == get_cache_key(query, ResponseContext(<<>>, PlainClient))

SweepIdle == [query |-> <<>>, current_time |-> 0, size |-> 0, seen |-> {}, remove |-> {},
              error |-> "none"]

SweepInit ==
    /\ now = StartTime + SweepAge
    /\ last_cleanup = StartTime
    /\ response_cache = Put(<<>>, ResponseKeyOf(Q_dal), StartTime + 10, <<"formatted", "a1">>)
    /\ search_cache \in {<<>>, Put(<<>>, SearchKeyOf(Q_dal), StartTime + 10, <<>>)}
    /\ research_cache = <<>>
    /\ embedding_cache = <<>>
    /\ op = [name |-> "sweep", deleted |-> {}]
    /\ ticks = 0
    /\ ops = 0
    /\ \E query \in SweepQueries \cup {<<>>} :
           /\ req_pc = [t \in SweepThreads |->
                           IF t = 1 /\ query # <<>> THEN "store_search" ELSE "idle"]
           /\ req_loc = [t \in SweepThreads |-> [SweepIdle EXCEPT !.query =
                            IF t = 1 THEN query ELSE <<>>]]
    /\ RLStart
    /\ RLIdle
    /\ MemStart
    /\ LearnStart
    /\ ChatIdle
    /\ TrainIdle
    /\ kb_docs = <<>>

sweepFrame == <<now, rlVars, memVars, kb_docs, research_cache, embedding_cache, ticks, ops,
                learnVars, chatVars, trainVars>>

\* A request arrives and reaches cleanup_cache.
SweepArrive(t, query) ==
    /\ req_pc[t] = "idle"
    /\ req_pc' = [req_pc EXCEPT ![t] = "gate"]
    /\ req_loc' = [req_loc EXCEPT ![t] = [SweepIdle EXCEPT !.query = query]]
    /\ UNCHANGED <<response_cache, search_cache, last_cleanup, op, sweepFrame>>

\* The table a request scans or deletes from at its position.
TableAt(pc) ==
    IF pc \in {"scan_response", "delete_response"} THEN response_cache ELSE search_cache

\* lines 87-97: the gate; when the sweep is due, the loop over response_cache starts,
\* its iterator noting the size of the table.
SweepGate(t) ==
    /\ req_pc[t] = "gate"
    /\ IF CleanupDue(now, last_cleanup)
       THEN /\ req_pc' = [req_pc EXCEPT ![t] = "scan_response"]
            /\ req_loc' = [req_loc EXCEPT ![t].current_time = now,
                                          ![t].size = Cardinality(DOMAIN response_cache)]
       ELSE /\ req_pc' = [req_pc EXCEPT ![t] = "store_search"]
            /\ req_loc' = req_loc
    /\ UNCHANGED <<response_cache, search_cache, last_cleanup, op, sweepFrame>>

\* lines 98-100 and 107-109: one turn of a scanning loop. The iterator raises
\* RuntimeError when the size of the table is no longer the one it noted; otherwise it
\* yields a key not yet seen, which is listed when its entry is older than the cutoff,
\* or ends the loop.
SweepScan(t) ==
    /\ req_pc[t] \in {"scan_response", "scan_search"}
    /\ LET table == TableAt(req_pc[t])
           loc == req_loc[t]
           rest == DOMAIN table \ loc.seen
       IN  IF Cardinality(DOMAIN table) # loc.size
           THEN /\ req_pc' = [req_pc EXCEPT ![t] = "failed"]
                /\ req_loc' = [req_loc EXCEPT ![t].error = "RuntimeError"]
           ELSE IF rest = {}
           THEN /\ req_pc' = [req_pc EXCEPT ![t] =
                                 IF @ = "scan_response" THEN "delete_response"
                                 ELSE "delete_search"]
                /\ req_loc' = req_loc
           ELSE \E key \in rest :
                   /\ req_pc' = req_pc
                   /\ req_loc' = [req_loc EXCEPT
                          ![t].seen = @ \cup {key},
                          ![t].remove =
                              IF table[key].timestamp < loc.current_time - CleanupCutoff
                              THEN @ \cup {key} ELSE @]
    /\ UNCHANGED <<response_cache, search_cache, last_cleanup, op, sweepFrame>>

\* lines 102-103 and 111-112: one turn of a deleting loop; del raises KeyError for a
\* key that is no longer there. After the last key the next loop starts (line 107), or
\* the sweep ends (line 114).
SweepDelete(t) ==
    /\ req_pc[t] \in {"delete_response", "delete_search"}
    /\ LET table == TableAt(req_pc[t])
           loc == req_loc[t]
       IN  IF loc.remove = {}
           THEN /\ IF req_pc[t] = "delete_response"
                   THEN /\ req_pc' = [req_pc EXCEPT ![t] = "scan_search"]
                        /\ req_loc' = [req_loc EXCEPT
                               ![t].size = Cardinality(DOMAIN search_cache),
                               ![t].seen = {}]
                        /\ last_cleanup' = last_cleanup
                   ELSE /\ req_pc' = [req_pc EXCEPT ![t] = "store_search"]
                        /\ req_loc' = req_loc
                        /\ last_cleanup' = loc.current_time
                /\ UNCHANGED <<response_cache, search_cache, op>>
           ELSE \E key \in loc.remove :
                   /\ req_loc' = [req_loc EXCEPT
                          ![t].remove = @ \ {key},
                          ![t].error = IF key \in DOMAIN table THEN @ ELSE "KeyError"]
                   /\ req_pc' = [req_pc EXCEPT ![t] =
                                    IF key \in DOMAIN table THEN @ ELSE "failed"]
                   /\ response_cache' =
                          IF req_pc[t] = "delete_response"
                          THEN Restrict(response_cache, DOMAIN response_cache \ {key})
                          ELSE response_cache
                   /\ search_cache' =
                          IF req_pc[t] = "delete_search"
                          THEN Restrict(search_cache, DOMAIN search_cache \ {key})
                          ELSE search_cache
                   /\ op' = IF key \in DOMAIN table
                            THEN [op EXCEPT !.deleted =
                                     @ \cup {[key |-> key, timestamp |-> table[key].timestamp,
                                              cutoff |-> loc.current_time - CleanupCutoff]}]
                            ELSE op
                   /\ last_cleanup' = last_cleanup
    /\ UNCHANGED sweepFrame

\* line 617: the request stores its search result.
StoreSearch(t) ==
    /\ req_pc[t] = "store_search"
    /\ req_pc' = [req_pc EXCEPT ![t] = "store_response"]
    /\ search_cache' = Put(search_cache, SearchKeyOf(req_loc[t].query), now, <<>>)
    /\ UNCHANGED <<response_cache, last_cleanup, req_loc, op, sweepFrame>>

\* line 950: the request stores its response.
StoreResponse(t) ==
    /\ req_pc[t] = "store_response"
    /\ req_pc' = [req_pc EXCEPT ![t] = "done"]
    /\ response_cache' = Put(response_cache, ResponseKeyOf(req_loc[t].query), now,
                             <<"formatted", "a1">>)
    /\ UNCHANGED <<search_cache, last_cleanup, req_loc, op, sweepFrame>>

SweepNext ==
    \E t \in SweepThreads :
        \/ \E query \in SweepQueries : SweepArrive(t, query)
        \/ SweepGate(t)
        \/ SweepScan(t)
        \/ SweepDelete(t)
        \/ StoreSearch(t)
        \/ StoreResponse(t)

SpecSweep == SweepInit /\ [][SweepNext]_vars

\* --------------------------------------- conversation memory, concurrent requests

\* Two requests of one client run update_conversation_memory (app.py line 1007) at
\* the same time, each on its own thread and without a lock. A list is an object: a
\* request that has loaded the client's list appends to that object, also when the
\* table has been given another list in the meantime. op.list_id names the list the
\* table holds for the client.

MemRequests == 2

MemThreads == 1..MemRequests

\* The query of request t.
MemQuery(t) == <<"q1", "q2", "q3">>[t]

MemIdle == [query |-> "none", ref |-> 0, tmp |-> <<>>]

\* The client has no history yet, or one of five interactions.
RECURSIVE HistoryOf(_)
HistoryOf(n) ==
    IF n = 0 THEN <<>>
    ELSE Append(HistoryOf(n - 1), [query |-> "q0", response |-> "r1", timestamp |-> StartTime - n])

MemConcInit ==
    /\ now = StartTime
    /\ conversation_memory \in {<<>>, PlainClient :> <<>>, PlainClient :> HistoryOf(4),
                                PlainClient :> HistoryOf(5)}
    /\ mem_log = <<>>
    /\ req_pc = [t \in MemThreads |-> "idle"]
    /\ req_loc = [t \in MemThreads |-> MemIdle]
    /\ op = [name |-> "memory", list_id |-> 1]
    /\ ticks = 0
    /\ ops = 0
    /\ search_cache = <<>>
    /\ response_cache = <<>>
    /\ research_cache = <<>>
    /\ embedding_cache = <<>>
    /\ last_cleanup = StartTime
    /\ RLStart
    /\ RLIdle
    /\ LearnStart
    /\ ChatIdle
    /\ TrainIdle
    /\ kb_docs = <<>>

memFrame == <<now, rlVars, mem_log, kb_docs, cacheVars, ticks, ops, learnVars, chatVars,
              trainVars>>

\* Request t, the one with query "q<t>", reaches update_conversation_memory.
MemBegin(t) ==
    /\ req_pc[t] = "idle"
    /\ req_pc' = [req_pc EXCEPT ![t] = "check"]
    /\ req_loc' = [req_loc EXCEPT ![t].query = MemQuery(t)]
    /\ UNCHANGED <<conversation_memory, op, memFrame>>

\* line 305: client_ip not in conversation_memory
MemCheck(t) ==
    /\ req_pc[t] = "check"
    /\ req_pc' = [req_pc EXCEPT ![t] =
                     IF PlainClient \notin DOMAIN conversation_memory THEN "create" ELSE "load"]
    /\ UNCHANGED <<conversation_memory, req_loc, op, memFrame>>

\* line 306: conversation_memory[client_ip] = [], a new list.
MemCreate(t) ==
    /\ req_pc[t] = "create"
    /\ req_pc' = [req_pc EXCEPT ![t] = "load"]
    /\ conversation_memory' =
           [c \in DOMAIN conversation_memory \cup {PlainClient} |->
               IF c = PlainClient THEN <<>> ELSE conversation_memory[c]]
    /\ op' = [op EXCEPT !.list_id = @ + 1]
    /\ UNCHANGED <<req_loc, memFrame>>

\* line 309, first half: conversation_memory[client_ip] is loaded.
MemLoad(t) ==
    /\ req_pc[t] = "load"
    /\ req_pc' = [req_pc EXCEPT ![t] = "append"]
    /\ req_loc' = [req_loc EXCEPT ![t].ref = op.list_id]
    /\ UNCHANGED <<conversation_memory, op, memFrame>>

\* lines 309-313: .append(...) on the list that was loaded; the table shows it only
\* while it still holds that list.
MemAppend(t) ==
    /\ req_pc[t] = "append"
    /\ req_pc' = [req_pc EXCEPT ![t] = "len"]
    /\ conversation_memory' =
           IF req_loc[t].ref = op.list_id
           THEN [conversation_memory EXCEPT ![PlainClient] =
                    Append(@, [query |-> req_loc[t].query, response |-> "r1",
                               timestamp |-> now])]
           ELSE conversation_memory
    /\ UNCHANGED <<req_loc, op, memFrame>>

\* line 315: len(conversation_memory[client_ip]) > 5
MemLen(t) ==
    /\ req_pc[t] = "len"
    /\ req_pc' = [req_pc EXCEPT ![t] =
                     IF Len(conversation_memory[PlainClient]) > 5 THEN "slice" ELSE "done"]
    /\ UNCHANGED <<conversation_memory, req_loc, op, memFrame>>

\* line 316, right side: conversation_memory[client_ip][-5:], a new list.
MemSlice(t) ==
    /\ req_pc[t] = "slice"
    /\ req_pc' = [req_pc EXCEPT ![t] = "store"]
    /\ req_loc' = [req_loc EXCEPT ![t].tmp = LastN(conversation_memory[PlainClient], 5)]
    /\ UNCHANGED <<conversation_memory, op, memFrame>>

\* line 316, the assignment.
MemStore(t) ==
    /\ req_pc[t] = "store"
    /\ req_pc' = [req_pc EXCEPT ![t] = "done"]
    /\ conversation_memory' = [conversation_memory EXCEPT ![PlainClient] = req_loc[t].tmp]
    /\ op' = [op EXCEPT !.list_id = @ + 1]
    /\ UNCHANGED <<req_loc, memFrame>>

MemConcNext ==
    \E t \in MemThreads :
        \/ MemBegin(t)
        \/ MemCheck(t)
        \/ MemCreate(t)
        \/ MemLoad(t)
        \/ MemAppend(t)
        \/ MemLen(t)
        \/ MemSlice(t)
        \/ MemStore(t)

SpecMemoryConc == MemConcInit /\ [][MemConcNext]_vars

\* ------------------------------------------------- one chat request, by steps

\* The control flow of app.py's chat for one request, one step per collaborator
\* request or block of straight-line code. Each collaborator request returns or
\* raises; what the data decides (the gate, the validation, a cache being fresh, the
\* query being a follow-up, a document making the scoring raise) is left open. The
\* fields of chat_run: pc, the position; retry_count, of search_knowledge_base;
\* research_left, the research queries deep_research has still to run; kb_ret and
\* gs_ret, where search_knowledge_base and gemini_search return to; embeds and
\* completes, the collaborator requests made so far; status, the reply's status.

\* The counts of collaborator requests stop growing here.
RunCallCap == 30

nonRunVars ==
    <<now, rlVars, memVars, kb_docs, cacheVars, obsVars, learnVars, app_module, trainVars,
      concVars>>

RunInit ==
    /\ now = StartTime
    /\ RLStart
    /\ RLIdle
    /\ MemStart
    /\ LearnStart
    /\ ChatIdle
    /\ TrainIdle
    /\ ConcIdle
    /\ kb_docs = CorpusA
    /\ CacheStart

Counted(n) == Min(n + 1, RunCallCap)

Goto(pc) == chat_run' = [chat_run EXCEPT !.pc = pc]

Replied(status) == chat_run' = [chat_run EXCEPT !.pc = "replied", !.status = status]

\* search_knowledge_base is called, to return to ret.
CallSearch(ret) == chat_run' = [chat_run EXCEPT !.pc = "search", !.kb_ret = ret]

\* gemini_search is called, to return to ret.
CallGemini(ret) == chat_run' = [chat_run EXCEPT !.pc = "gemini", !.gs_ret = ret]

\* gemini_search returns to its caller: generate_response (line 903), deep_research
\* (line 377) or chat (line 1023).
ReturnGemini(run) ==
    chat_run' = [run EXCEPT !.pc = CASE run.gs_ret = "answer" -> "answer"
                                     [] run.gs_ret = "research" -> "research"
                                     [] OTHER -> "learn"]

\* search_knowledge_base returns to its caller: chat (line 997), fallback_search within
\* gemini_search (line 790), or the fallback_search of deep_research's except branch.
ReturnSearch ==
    CASE chat_run.kb_ret = "respond" -> Goto("respond")
      [] chat_run.kb_ret = "gs" -> ReturnGemini(chat_run)
      [] OTHER -> Goto("research")

\* The exception of fallback_keyword_search leaves search_knowledge_base: to the inner
\* except of chat, to the except of generate_response (the apology), to the except of
\* deep_research's loop (a second fallback search), or swallowed there.
RaiseFromSearch ==
    CASE chat_run.kb_ret = "respond" -> Goto("direct")
      [] chat_run.kb_ret = "gs" /\ chat_run.gs_ret = "answer" -> Goto("memory")
      [] chat_run.kb_ret = "gs" /\ chat_run.gs_ret = "research" -> CallSearch("research_fb")
      [] chat_run.kb_ret = "gs" /\ chat_run.gs_ret = "learn" -> Goto("direct")
      [] OTHER -> Goto("research")

\* A request arrives (lines 963-966).
RunArrive ==
    /\ chat_run.pc \in {"idle", "replied"}
    /\ chat_run' = [pc |-> "gate", retry_count |-> 0, research_left |-> 0,
                    kb_ret |-> "none", gs_ret |-> "none", embeds |-> 0, completes |-> 0,
                    status |-> 0]
    /\ UNCHANGED nonRunVars

\* lines 968-974 and 1072-1077: the gate admits, rejects or raises.
RunGate ==
    /\ chat_run.pc = "gate"
    /\ \E ret \in {"True", "False", "ValueError"} :
           CASE ret = "True" -> Goto("validate")
             [] ret = "False" -> Replied(429)
             [] OTHER -> Replied(500)
    /\ UNCHANGED nonRunVars

\* lines 977-997: the sweep and the validation; a valid query goes to the search.
RunValidate ==
    /\ chat_run.pc = "validate"
    /\ \E body \in {"not_json", "null", "empty", "text"} :
           CASE body = "text" -> CallSearch("respond")
             [] body = "null" -> Replied(500)
             [] OTHER -> Replied(400)
    /\ UNCHANGED nonRunVars

\* lines 546-562: no corpus or a fresh entry ends the search, a miss starts the retry
\* loop.
RunSearch ==
    /\ chat_run.pc = "search"
    /\ \E way \in {"no_docs", "cached", "miss"} :
           IF way = "miss"
           THEN chat_run' = [chat_run EXCEPT !.pc = "embed", !.retry_count = 0]
           ELSE ReturnSearch
    /\ UNCHANGED nonRunVars

\* RunEmbed with a failed attempt left uncounted.
RunEmbed_NoCount ==
    /\ chat_run.pc = "embed"
    /\ \E ok \in BOOLEAN :
           chat_run' = [chat_run EXCEPT !.embeds = Counted(@),
                                        !.pc = IF ok THEN "score" ELSE "embed"]
    /\ UNCHANGED nonRunVars

\* lines 564-577: one pass of the retry loop, one request for the query's embedding.
RunEmbed ==
    /\ chat_run.pc = "embed"
    /\ \E ok \in BOOLEAN :
           chat_run' = [chat_run EXCEPT
                           !.embeds = Counted(@),
                           !.retry_count = IF ok THEN @ ELSE @ + 1,
                           !.pc = IF ok THEN "score"
                                  ELSE IF chat_run.retry_count + 1 >= MaxRetries
                                  THEN "keyword" ELSE "embed"]
    /\ UNCHANGED nonRunVars

\* lines 579-626: the scoring returns its list, or raises and the keyword strategy
\* takes over.
RunScore ==
    /\ chat_run.pc = "score"
    /\ \E raises \in BOOLEAN : IF raises THEN Goto("keyword") ELSE ReturnSearch
    /\ UNCHANGED nonRunVars

\* lines 628-662: fallback_keyword_search returns its list or raises.
RunKeyword ==
    /\ chat_run.pc = "keyword"
    /\ \E raises \in BOOLEAN : IF raises THEN RaiseFromSearch ELSE ReturnSearch
    /\ UNCHANGED nonRunVars

\* lines 1000-1004 and 832-903: generate_response serves a fresh entry, or starts
\* deep_research for a follow-up, or calls gemini_search.
RunRespond ==
    /\ chat_run.pc = "respond"
    /\ \E way \in {"cached", "follow_up", "plain"} :
           CASE way = "cached" -> Goto("memory")
             [] way = "follow_up" ->
                    chat_run' = [chat_run EXCEPT !.pc = "research",
                                                 !.research_left = ResearchLimit]
             [] OTHER -> CallGemini("answer")
    /\ UNCHANGED nonRunVars

\* lines 367-388: one pass of deep_research's loop over research_queries[:3].
RunResearch ==
    /\ chat_run.pc = "research"
    /\ IF chat_run.research_left = 0
       THEN Goto("answer")
       ELSE \E cached \in BOOLEAN :
               chat_run' = [chat_run EXCEPT
                               !.research_left = @ - 1,
                               !.pc = IF cached THEN "research" ELSE "gemini",
                               !.gs_ret = IF cached THEN @ ELSE "research"]
    /\ UNCHANGED nonRunVars

\* lines 664-704: gemini_search serves a fresh entry, or makes its completion request
\* and returns the parsed results, or falls back to fallback_search.
RunGemini ==
    /\ chat_run.pc = "gemini"
    /\ \E way \in {"cached", "ok", "fail"} :
           CASE way = "cached" -> ReturnGemini(chat_run)
             [] way = "ok" -> ReturnGemini([chat_run EXCEPT !.completes = Counted(@)])
             [] OTHER -> chat_run' = [chat_run EXCEPT !.completes = Counted(@),
                                                      !.pc = "search", !.kb_ret = "gs"]
    /\ UNCHANGED nonRunVars

\* lines 945-959: the completion request for the answer; the text or the apology is
\* returned.
RunAnswer ==
    /\ chat_run.pc = "answer"
    /\ chat_run' = [chat_run EXCEPT !.completes = Counted(@), !.pc = "memory"]
    /\ UNCHANGED nonRunVars

\* lines 1007-1023: the memory is updated and gemini_search called for the sources.
RunMemory ==
    /\ chat_run.pc = "memory"
    /\ CallGemini("learn")
    /\ UNCHANGED nonRunVars

\* lines 1024-1047: the sources, learn_from_interaction and the reply.
RunLearn ==
    /\ chat_run.pc = "learn"
    /\ Replied(200)
    /\ UNCHANGED nonRunVars

\* lines 1049-1070: the direct completion request and its reply.
RunDirect ==
    /\ chat_run.pc = "direct"
    /\ \E ok \in BOOLEAN :
           chat_run' = [chat_run EXCEPT !.completes = Counted(@), !.pc = "replied",
                                        !.status = IF ok THEN 200 ELSE 500]
    /\ UNCHANGED nonRunVars

\* The steps of the request under way.
RunStep ==
    \/ RunGate
    \/ RunValidate
    \/ RunSearch
    \/ RunEmbed
    \/ RunScore
    \/ RunKeyword
    \/ RunRespond
    \/ RunResearch
    \/ RunGemini
    \/ RunAnswer
    \/ RunMemory
    \/ RunLearn
    \/ RunDirect

RunNext == RunArrive \/ RunStep

\* The handler keeps running once a request has arrived: its own code takes its next
\* step, and every collaborator request returns or raises.
SpecChatRun == RunInit /\ [][RunNext]_vars /\ WF_vars(RunStep)

\* --------------------------------------------------------- claims: caches

\* The table a lookup of the given kind reads, and its TTL.
CacheOfKind(kind) ==
    IF kind \in {"kb_search", "gemini_search"} THEN search_cache
    ELSE IF kind = "response" THEN response_cache
    ELSE research_cache

TTLOfKind(kind) ==
    CASE kind = "kb_search" -> SearchTTL
      [] kind = "response" -> ResponseTTL
      [] kind = "gemini_search" -> GeminiSearchTTL
      [] kind = "research" -> ResearchTTL

\* The entry a lookup found has been replaced by one written during the operation.
Overwritten(e) ==
    /\ e.key \in DOMAIN CacheOfKind(e.kind)
    /\ CacheOfKind(e.kind)[e.key].timestamp >= op.at

\* The entry a lookup found is still in the table as it was.
LeftInPlace(e) ==
    /\ e.key \in DOMAIN CacheOfKind(e.kind)
    /\ CacheOfKind(e.kind)[e.key].timestamp = e.at - e.age

\* A lookup served only an entry younger than the TTL of its table.
ServedYoung(e) == e.served => (e.age >= 0 /\ e.age < TTLOfKind(e.kind))

\* C4 as stated: every lookup serves only an entry younger than the TTL of its table
\* (300 s for knowledge-base search results, 600 s for composed responses, 1800 s
\* and 3600 s for derived and research results), and an entry found at or past its
\* TTL is recomputed and overwritten.
C4_ExpiredAlwaysOverwritten ==
    op.name # "none" =>
        \A i \in 1..Len(op.log) :
            /\ ServedYoung(op.log[i])
            /\ op.log[i].age >= TTLOfKind(op.log[i].kind) =>
                   ~op.log[i].served /\ Overwritten(op.log[i])

\* C4, amended: every lookup serves only an entry younger than the TTL of its table;
\* an entry found at or past its TTL is never served, and it is overwritten when the
\* recomputation succeeds, which it always does for knowledge-base search results
\* and research results; when the completion request behind a composed response or
\* a derived search result fails, the expired entry stays in the table as it was.
C4_ExpiredOverwrittenUnlessFailed ==
    op.name # "none" =>
        \A i \in 1..Len(op.log) :
            LET e == op.log[i]
            IN  /\ ServedYoung(e)
                /\ e.age >= TTLOfKind(e.kind) =>
                       /\ ~e.served
                       /\ IF <<e.kind, e.key>> \in op.failed
                          THEN e.kind \in {"response", "gemini_search"} /\ LeftInPlace(e)
                          ELSE Overwritten(e)

\* An operation that found a composed response exactly as old as its TTL, failed to
\* recompute it, and meanwhile served a younger entry from another table.
C4_Witness ==
    /\ op.name = "generate_response"
    /\ \E i \in 1..Len(op.log) : op.log[i].served /\ op.log[i].age > 0
    /\ \E i \in 1..Len(op.log) :
           /\ op.log[i].kind = "response"
           /\ op.log[i].age = ResponseTTL
           /\ <<op.log[i].kind, op.log[i].key>> \in op.failed

\* The key of a knowledge-base search entry (the table with TTL 300 s).
IsKBKey(key) == \E i \in 1..(Len(key) - 1) : key[i] = ":" /\ key[i + 1] = "search_"

\* Age, at the last operation, of an entry the operation found in the search cache.
AgeBefore(key) == op.at - op.before.search_cache[key].timestamp

\* C5 as stated: after a sweep, a knowledge-base search entry written 299 s or less
\* before is present and one written 301 s or more before is absent.
C5_AbsentAfterTTL ==
    (op.name = "cleanup" /\ op.swept) =>
        \A k \in DOMAIN op.before.search_cache :
            IsKBKey(k) =>
                /\ AgeBefore(k) <= 299 => k \in DOMAIN search_cache
                /\ AgeBefore(k) >= 301 => k \notin DOMAIN search_cache

\* C5, amended: a knowledge-base search entry written at T is present at T+299 and
\* is still present at T+301 and up to T+3600, sweep or no sweep (past T+300 it is only
\* no longer served); a sweep removes it exactly when it is older than the 1-hour
\* cutoff.
C5_AbsentAfterCutoff ==
    (op.name = "cleanup" /\ op.swept) =>
        \A k \in DOMAIN op.before.search_cache :
            IsKBKey(k) =>
                IF AgeBefore(k) <= CleanupCutoff
                THEN /\ k \in DOMAIN search_cache
                     /\ search_cache[k] = op.before.search_cache[k]
                ELSE k \notin DOMAIN search_cache

\* A sweep that ran with a knowledge-base search entry older than 300 s, and within the
\* cutoff, in the table.
C5_Witness ==
    /\ op.name = "cleanup"
    /\ op.swept
    /\ \E k \in DOMAIN op.before.search_cache :
           IsKBKey(k) /\ AgeBefore(k) >= 301 /\ AgeBefore(k) <= CleanupCutoff

\* C6: a sweep scans the tables only 600 s or more after the previous sweep; a
\* cleanup_cache call made less than 600 s after it changes no cache table and leaves
\* the last-sweep time where it was.
C6_SweepsTenMinutesApart ==
    op.name = "cleanup" =>
        /\ op.swept => op.at - op.before.last_cleanup >= CleanupInterval
        /\ op.at - op.before.last_cleanup < CleanupInterval =>
               /\ ~op.swept
               /\ search_cache = op.before.search_cache
               /\ response_cache = op.before.response_cache
               /\ research_cache = op.before.research_cache
               /\ embedding_cache = op.before.embedding_cache
               /\ last_cleanup = op.before.last_cleanup

\* A cleanup_cache call made less than 600 s after a sweep that ran.
C6_Witness ==
    /\ op.name = "cleanup"
    /\ op.before.last_cleanup > StartTime
    /\ op.at - op.before.last_cleanup < CleanupInterval

\* What a sweep at time `at` should leave of a table: no entry older than the cutoff,
\* every entry within the cutoff.
SweptClean(before, after, at) ==
    /\ \A k \in DOMAIN after : at - after[k].timestamp <= CleanupCutoff
    /\ \A k \in DOMAIN before :
           at - before[k].timestamp <= CleanupCutoff =>
               k \in DOMAIN after /\ after[k] = before[k]

\* C7: after a sweep no cache table (search results, composed responses, research
\* results, embedding results) holds an entry older than the 1-hour cutoff, and every
\* entry within the cutoff is still there.
C7_SweepCleansEveryTable ==
    (op.name = "cleanup" /\ op.swept) =>
        /\ SweptClean(op.before.search_cache, search_cache, op.at)
        /\ SweptClean(op.before.response_cache, response_cache, op.at)
        /\ SweptClean(op.before.research_cache, research_cache, op.at)
        /\ SweptClean(op.before.embedding_cache, embedding_cache, op.at)

\* ------------------------------------------------------ claims: rate limiter

\* C1: within one minute bucket a client's calls are admitted exactly while fewer than
\* `limit` calls precede them in the bucket, and rejected after that; a new bucket
\* starts again at zero.
C1_ExactlyLimitPerBucket ==
    rl_last.ret # "none" =>
        rl_last.ret = (IF rl_last.nth <= RLLimit THEN "True" ELSE "False")

\* C2: concurrent requests of one client in one bucket: at most `limit` are admitted and
\* the bucket counter never exceeds `limit`.
C2_ConcurrentAtMostLimit ==
    /\ \A c \in Clients : Cardinality(Admitted(c)) <= RLLimit
    /\ \A key \in DOMAIN rate_limit_tracker : rate_limit_tracker[key] <= RLLimit

\* ---------------------------------------------------------- claims: retrieval

SearchKey(o) == get_cache_key(o.query, SearchContext(o.top_k, o.threshold))

\* C3: a second search with the same query, top_k and threshold, less than 300 seconds
\* after the first one stored its result, returns the stored list, makes no request to
\* the embedding collaborator and scores no document.
C3_FreshEntryServedWithoutWork ==
    (/\ op.name = "search"
     /\ kb_docs # <<>>
     /\ op.before # <<>>
     /\ op.at - op.before[1].timestamp < SearchTTL)
        => /\ op.ret = op.before[1].value
           /\ op.path = "cached"
           /\ op.embed_calls = 0
           /\ op.scored = 0
           /\ Lookup(search_cache, SearchKey(op)) = op.before

\* A non-empty list is served from an entry stored 299 seconds earlier.
C3_Witness ==
    /\ op.name = "search"
    /\ op.path = "cached"
    /\ op.before # <<>>
    /\ op.at - op.before[1].timestamp = SearchTTL - 1
    /\ op.ret # <<>>

\* Position of the document with this id in the corpus.
PosOf(docs, id) == CHOOSE i \in 1..Len(docs) : docs[i].id = id

\* Non-increasing similarity; equal similarities in corpus order.
Ranked(docs, results) ==
    \A i, j \in 1..Len(results) :
        i < j => /\ results[i].similarity >= results[j].similarity
                 /\ results[i].similarity = results[j].similarity
                        => PosOf(docs, results[i].id) < PosOf(docs, results[j].id)

\* C8: a search that consults the cache and finds no fresh entry (none, or an expired
\* one) returns a ranked list, whatever the embedding collaborator does, and leaves
\* that list under the query's key with the time of storing. (With no corpus loaded
\* the function returns before it consults the cache.)
C8_MissStoresRankedList ==
    (/\ op.name = "search"
     /\ kb_docs # <<>>
     /\ \/ op.before = <<>>
        \/ ~(op.at - op.before[1].timestamp < SearchTTL))
        => /\ op.path \in {"vector", "keyword", "error_keyword"}
           /\ Ranked(kb_docs, op.ret)
           /\ SearchKey(op) \in DOMAIN search_cache
           /\ search_cache[SearchKey(op)] =
                  [timestamp |-> op.at + op.elapsed, value |-> op.ret]

\* An expired entry is replaced by the keyword list after the collaborator failed three
\* times.
C8_Witness ==
    /\ op.name = "search"
    /\ op.before # <<>>
    /\ op.at - op.before[1].timestamp >= SearchTTL
    /\ op.path = "keyword"
    /\ op.embed_calls = MaxRetries
    /\ op.ret # <<>>
    /\ search_cache[SearchKey(op)].timestamp = now

\* C10: the list a search returns (vector strategy, keyword strategy, or served from the
\* cache) is ordered by non-increasing similarity, results of equal similarity in the
\* order of their documents in the corpus.
C10_RankedDescendingStable ==
    op.name = "search" => Ranked(kb_docs, op.ret)

\* A returned list holds two results of equal similarity, and a result placed ahead of
\* one that precedes it in the corpus.
C10_Witness ==
    /\ op.name = "search"
    /\ \E i, j \in 1..Len(op.ret) :
           i < j /\ op.ret[i].similarity = op.ret[j].similarity
    /\ \E i, j \in 1..Len(op.ret) :
           /\ i < j
           /\ op.ret[i].similarity > op.ret[j].similarity
           /\ PosOf(kb_docs, op.ret[i].id) > PosOf(kb_docs, op.ret[j].id)

\* --------------------------------------------------- claims: conversation memory

\* C9: every client's history holds at most 5 entries, which are that client's most
\* recent interactions in the order they were appended; since a client's history is a
\* function of that client's own interactions, no other client's update changes it.
C9_HistoryIsLastFive ==
    /\ DOMAIN conversation_memory = DOMAIN mem_log
    /\ \A c \in DOMAIN conversation_memory :
           /\ Len(conversation_memory[c]) <= 5
           /\ conversation_memory[c] = LastN(mem_log[c], 5)

\* A client has appended more than 5 interactions while another client has a history.
C9_Witness ==
    \E c, d \in DOMAIN mem_log :
        /\ c # d
        /\ Len(mem_log[c]) > 5
        /\ Len(conversation_memory[c]) = 5
        /\ conversation_memory[c][1].query # conversation_memory[c][5].query
        /\ Len(mem_log[d]) >= 1

\* ------------------------------------------------ claims: retrieval strategies

\* The last operation was a search that missed the cache.
SearchMissed == op.name = "search" /\ op.path \in {"vector", "keyword", "error_keyword"}

\* C11: a search that misses the cache asks the embedding collaborator first, at most
\* 3 times and never again after an attempt that succeeded; when an attempt delivers an
\* embedding the list returned is the vector strategy's ranking, and when all 3 attempts
\* fail it is exactly the keyword strategy's ranking for the same query and top_k. (An
\* attempt that returns without an embedding to score also ends in the keyword
\* ranking.)
C11_VectorFirstThenLexical ==
    SearchMissed =>
        /\ op.embed_calls >= 1
        /\ op.embed_calls <= 3
        /\ op.embed.fails < 3 =>
               /\ op.embed_calls = op.embed.fails + 1
               /\ IF op.embed.vec # NoneEmbedding
                  THEN /\ op.path = "vector"
                       /\ op.ret = VectorSearch(kb_docs, op.embed.vec, op.query, op.top_k,
                                                op.threshold)
                  ELSE op.ret = fallback_keyword_search(kb_docs, op.query, op.top_k)
        /\ op.embed.fails >= 3 =>
               /\ op.embed_calls = 3
               /\ op.path = "keyword"
               /\ op.ret = fallback_keyword_search(kb_docs, op.query, op.top_k)

\* A search whose first two embedding requests failed and whose third one succeeded,
\* with a vector ranking that differs from the keyword ranking.
C11_Witness ==
    /\ SearchMissed
    /\ op.embed.fails = 2
    /\ op.embed_calls = 3
    /\ op.path = "vector"
    /\ op.ret # fallback_keyword_search(kb_docs, op.query, op.top_k)

\* The last operation was a search that returned a list it computed or found stored.
SearchReturned == op.name = "search"

\* The documents of the corpus behind a returned result.
DocsOf(r) == {i \in 1..Len(kb_docs) : kb_docs[i].id = r.id}

\* C13: every result search_knowledge_base returns has a similarity at or above the
\* threshold the caller gave, whichever strategy produced the list and whether it was
\* computed or served from the cache.
C13_ResultsMeetThreshold ==
    SearchReturned =>
        \A i \in 1..Len(op.ret) : op.ret[i].similarity >= op.threshold

\* C14: the similarity of every returned result lies in [0, 1] (0..100 hundredths),
\* for the keyword strategy and for the vector strategy after the title boost.
C14_SimilarityInUnitRange ==
    SearchReturned =>
        \A i \in 1..Len(op.ret) :
            op.ret[i].similarity >= 0 /\ op.ret[i].similarity <= 100

\* The score the vector strategy would give with one boost of 0.2 for a title that
\* holds at least one query term.
SingleBoostScore(doc, query_embedding, query) ==
    cosine_similarity(query_embedding, doc.embedding)
        + (IF Hits(Split(Lower(query)), Lower(doc.title)) > 0 THEN 20 ELSE 0)

\* C15: in the vector strategy a document's score is its cosine similarity to the
\* query embedding plus one boost of 0.2 when at least one query term appears in the
\* title, the same for one and for several matching terms, and no boost otherwise.
C15_SingleTitleBoost ==
    (op.name = "search" /\ op.path = "vector") =>
        \A i \in 1..Len(op.ret) :
            \A d \in DocsOf(op.ret[i]) :
                op.ret[i].similarity
                    = SingleBoostScore(kb_docs[d], op.embed.vec, op.query)

\* The number of places where term occurs in text.
Occurrences(text, term) ==
    Cardinality({i \in 0..(Len(text) - Len(term)) :
                    SubSeq(text, i + 1, i + Len(term)) = term})

\* Ten times the score of the weighting 3 x title hits + 2 x category hits + 0.5 x
\* occurrences across title, content and category, summed over the query terms; the
\* program has no synonym table and no learned term weights, so the expansion adds no
\* term and the learned boost is 0.
OccurrenceWeightedScore(doc, terms) ==
    30 * Hits(terms, Lower(doc.title))
        + 20 * Hits(terms, Lower(doc.category))
        + 5 * SumSeq([j \in 1..Len(terms) |->
                        Occurrences(Lower(doc.title), terms[j])
                            + Occurrences(Lower(doc.content), terms[j])
                            + Occurrences(Lower(doc.category), terms[j])])

\* C16: in the keyword strategy each returned document's similarity is min(score/10, 1)
\* of the score 3 x title hits + 2 x category hits + 0.5 x occurrence count + learned
\* boost over the expanded query terms, and no document of score 0 is returned.
C16_LexicalScoreFormula ==
    (op.name = "search" /\ op.path \in {"keyword", "error_keyword"}) =>
        \A i \in 1..Len(op.ret) :
            \A d \in DocsOf(op.ret[i]) :
                LET score == OccurrenceWeightedScore(kb_docs[d], Split(Lower(op.query)))
                IN  /\ score > 0
                    /\ op.ret[i].similarity = Min(score, 100)

\* ------------------------------------------------------- claims: chat handlers

\* The last operation was a chat request that reached a handler's try block.
ChatHandled == op.name = "chat" /\ op.path # "not_ready"

\* The count of the request's minute bucket before and after the request.
BucketBefore ==
    DefaultGet(op.before.rate_limit_tracker, MinuteKey(op.client, MinuteOf(op.at)))
        [MinuteKey(op.client, MinuteOf(op.at))]

BucketAfter ==
    DefaultGet(rate_limit_tracker, MinuteKey(op.client, MinuteOf(op.at)))
        [MinuteKey(op.client, MinuteOf(op.at))]

\* What the gate answers to the last request.
GateOf == rate_limit_check(op.before.rate_limit_tracker, op.client, ChatLimit, op.at).ret

\* The request made no search and no completion and looked into no cache.
NoWork == op.embeds = 0 /\ op.completes = 0 /\ op.log = <<>>

\* The caches, the conversation memory and the learning state are as before the request.
StoresUntouched ==
    /\ search_cache = op.before.search_cache
    /\ response_cache = op.before.response_cache
    /\ research_cache = op.before.research_cache
    /\ conversation_memory = op.before.conversation_memory
    /\ learning_database = op.before.learning_database
    /\ knowledge_expansion = op.before.knowledge_expansion
    /\ learning_file = op.before.learning_file

\* The request is empty or malformed: no JSON body, or a message that is missing,
\* null, empty or blank.
Malformed(request) ==
    \/ ~request.is_json
    \/ "message" \notin DOMAIN request.data
    \/ request.data["message"] = PyNone
    \/ Strip(request.data["message"]) = <<>>

FixedMessages ==
    {TooManyRequests, InvalidFormat, EnterMessage, Trouble, Unexpected, Initializing,
     Apology}

Diagnostics == {ErrInt, ErrStrip, ErrLower, ErrLang, ErrCompletion}

\* C17: every failure reply of a chat request (validation error, rate-limit
\* rejection, not-ready, internal error, the apology of a failed generation) carries
\* the fixed message of its status, and no reply, in its message or its sources, holds
\* the text of an exception.
C17_FailureRepliesAreFixed ==
    op.name = "chat" =>
        /\ op.reply.status = 429 => op.reply.response = TooManyRequests
        /\ op.reply.status = 400 => op.reply.response \in {InvalidFormat, EnterMessage}
        /\ op.reply.status = 503 => op.reply.response = Initializing
        /\ op.reply.status = 500 => op.reply.response \in {Trouble, Unexpected}
        /\ op.reply.status \in {200, 400, 429, 500, 503}
        /\ op.reply.status # 200 => op.reply.sources = <<>>
        /\ op.reply.response \notin Diagnostics
        /\ \A i \in 1..Len(op.reply.sources) :
               /\ op.reply.sources[i].title \notin Diagnostics
               /\ op.reply.sources[i].content \notin Diagnostics

\* A request that met an exception in the rate limiter and was answered with the
\* internal-error message.
C17_Witness ==
    /\ op.name = "chat"
    /\ op.handler = "app"
    /\ GateOf = "ValueError"
    /\ op.reply = Reply(500, Unexpected, <<>>)

\* C18: while the corpus is empty every chat request gets the not-ready status and its
\* message, and no search or response generation is made for it.
C18_EmptyCorpusNotReady ==
    (op.name = "chat" /\ kb_docs = <<>>) =>
        /\ op.reply = Reply(503, Initializing, <<>>)
        /\ NoWork

\* C19: an empty or malformed chat request that the gate admits gets the validation
\* error and its message, and causes no search, no generation and no change to the
\* caches, the conversation memory or the learning state.
C19_MalformedOnlyRejected ==
    (ChatHandled /\ GateOf = "True" /\ Malformed(op.request)) =>
        /\ op.reply.status = 400
        /\ op.reply.response \in {InvalidFormat, EnterMessage}
        /\ NoWork
        /\ StoresUntouched

\* C20: a chat request whose bucket is at the limit gets the admission-rejected reply
\* and nothing else happens: the caches, the conversation memory, the learning
\* database, the last-sweep time and the bucket's count stay as they were.
C20_RejectedChangesNothing ==
    (ChatHandled /\ BucketBefore >= ChatLimit) =>
        /\ op.reply = Reply(429, TooManyRequests, <<>>)
        /\ NoWork
        /\ StoresUntouched
        /\ last_cleanup = op.before.last_cleanup
        /\ BucketAfter = BucketBefore

\* A well-formed request rejected at the gate, after a request that filled the caches
\* and the conversation memory.
C20_Witness ==
    /\ ChatHandled
    /\ BucketBefore >= ChatLimit
    /\ ~Malformed(op.request)
    /\ op.reply.status = 429
    /\ search_cache # <<>>
    /\ conversation_memory # <<>>

\* C12: every chat request ends with a reply, whatever requests to the embedding and
\* completion collaborators fail, and the requests made for one chat request are
\* bounded: at most 3 for each of the 8 searches it can run, and at most 6 completions.
C12_RequestEndsWithReply ==
    /\ [](/\ chat_run.pc # "idle" =>
               /\ chat_run.embeds <= MaxRetries * (2 + 2 * ResearchLimit)
               /\ chat_run.completes <= ResearchLimit + 3
          /\ chat_run.pc = "replied" => chat_run.status \in {200, 400, 429, 500})
    /\ (chat_run.pc = "gate") ~> (chat_run.pc = "replied")

\* A request answered after the largest number of collaborator requests, all of its
\* searches having failed.
C12_Witness ==
    /\ chat_run.pc = "replied"
    /\ chat_run.embeds = MaxRetries * (2 + 2 * ResearchLimit)
    /\ chat_run.completes = ResearchLimit + 3

\* C21: a chat request to api/chat.py with a JSON body and a non-blank message, from a
\* client under its limit, with the application module loaded, is answered with the
\* success status and a response text, not with a failure status.
C21_ValidRequestSucceeds ==
    (/\ op.name = "chat"
     /\ op.handler = "api"
     /\ app_module = "app"
     /\ GateOf = "True"
     /\ ~Malformed(op.request)) =>
        /\ op.reply.status = 200
        /\ op.reply.response \notin FixedMessages \ {Apology}

\* ------------------------------------------------------------ claims: learning

\* The weight the learning state holds for a term, in hundredths: the confidence
\* score of its knowledge_expansion entry, the one number of the learning state kept
\* per term; a term without an entry has no weight yet.
WeightOf(expansion, term) ==
    IF term \in DOMAIN expansion THEN 10 * expansion[term].confidence_score ELSE 0

\* The tokens of the last request's query.
QueryTokens ==
    LET words == Split(Lower(Strip(op.request.data["message"])))
    IN  {words[i] : i \in 1..Len(words)}

\* The last request was served: answered through to learn_from_interaction.
Served == op.name = "chat" /\ op.path = "answered"

\* C22: a served interaction raises the learned weight of each token of its query by
\* exactly 0.05, and no request lowers the weight of any term.
C22_TokenWeightsGrowByFixedStep ==
    /\ Served =>
           \A term \in QueryTokens :
               WeightOf(knowledge_expansion, term)
                   = WeightOf(op.before.knowledge_expansion, term) + 5
    /\ op.name = "chat" =>
           \A term \in DOMAIN op.before.knowledge_expansion :
               WeightOf(knowledge_expansion, term)
                   >= WeightOf(op.before.knowledge_expansion, term)

\* The file at LEARNING_DB_PATH read by load_learning_database into empty globals.
Reloaded ==
    load_learning_database([learning_database |-> <<>>, knowledge_expansion |-> <<>>,
                            learning_file |-> learning_file])

\* C23: after every save of the learning database, loading the file gives back the
\* learning history with its feedback scores and the derived knowledge exactly as they
\* were in memory when the file was written, and a restart leaves them in memory.
C23_SaveLoadRoundTrip ==
    /\ (op.name \in {"learn", "feedback"} /\ op.saved) =>
           /\ Reloaded.learning_database = learning_database
           /\ Reloaded.knowledge_expansion = knowledge_expansion
    /\ (op.name = "restart" /\ learning_file.exists) =>
           /\ Reloaded.learning_database = learning_database
           /\ Reloaded.knowledge_expansion = knowledge_expansion

\* A save after the fifth interaction of a query, of a state that holds a feedback
\* score, a response, a source and a definition with characters that json.dump
\* escapes.
C23_Witness ==
    /\ op.name = "learn"
    /\ op.saved
    /\ learning_file.exists
    /\ \E k \in DOMAIN learning_database :
           \E i \in 1..Len(learning_database[k].responses) :
               /\ learning_database[k].responses[i].response = R_quoted
               /\ learning_database[k].responses[i].sources = <<SrcQuoted>>
    /\ \E k \in DOMAIN learning_database :
           \E i \in 1..Len(learning_database[k].responses) :
               learning_database[k].responses[i].feedback_score # 0
    /\ \E c \in DOMAIN knowledge_expansion :
           \E i \in 1..Len(knowledge_expansion[c].definitions) :
               Contains(knowledge_expansion[c].definitions[i], <<"\"">>)

\* ------------------------------------------------------------ claims: training

\* The training program has run.
Trained == op.name = "train"

\* C24: every document of the corpus made by load_docs has an id that no other
\* document of the corpus has.
C24_IdsUnique ==
    Trained =>
        \A i, j \in 1..Len(op.docs) : op.docs[i].id = op.docs[j].id => i = j

\* The number of times token t occurs in a document's tokens.
CountIn(tokens, t) == Cardinality({k \in 1..Len(tokens) : tokens[k] = t})

\* The terms of a document, and of the corpus.
TermsOf(doc) == {doc.tokens[k] : k \in 1..Len(doc.tokens)}

CorpusTerms == UNION {TermsOf(op.docs[i]) : i \in 1..Len(op.docs)}

\* The number of documents that hold term t.
DocsWith(t) == Cardinality({i \in 1..Len(op.docs) : t \in TermsOf(op.docs[i])})

\* C25: the model written by the training program has N equal to the number of
\* documents; for each document, in corpus order, its id, a term-frequency map that
\* counts the occurrences of each of its tokens and a length equal to its number of
\* tokens; and an idf entry for exactly the terms that occur in some document, computed
\* from the number of documents that hold the term, which lies between 1 and N.
C25_IndexMatchesCorpus ==
    Trained =>
        LET model == trained_model.model
            N == Len(op.docs)
        IN  /\ model.meta.N = N
            /\ Len(model.docs) = N
            /\ \A i \in 1..N :
                   /\ model.docs[i].id = op.docs[i].id
                   /\ model.docs[i].title = op.docs[i].title
                   /\ DOMAIN model.docs[i].tf = TermsOf(op.docs[i])
                   /\ \A t \in TermsOf(op.docs[i]) :
                          model.docs[i].tf[t] = CountIn(op.docs[i].tokens, t)
                   /\ model.docs[i].len = Len(op.docs[i].tokens)
            /\ DOMAIN model.idf = CorpusTerms
            /\ \A t \in CorpusTerms :
                   /\ DocsWith(t) >= 1
                   /\ DocsWith(t) <= N
                   /\ model.idf[t] = Idf(N, DocsWith(t))

\* A corpus of four documents from both sources, with a token that occurs twice in
\* one document and a term held by every document.
C25_Witness ==
    /\ Trained
    /\ Len(op.docs) = 4
    /\ kb1_csv.exists /\ kb2_csv.exists
    /\ \E i \in 1..Len(op.docs) :
           \E t \in TermsOf(op.docs[i]) : trained_model.model.docs[i].tf[t] >= 2
    /\ \E t \in CorpusTerms : DocsWith(t) = 4
    /\ \E t \in CorpusTerms : DocsWith(t) = 1

\* ------------------------------------------------------- claims: client state

\* The client's state is gone from the shared tables: no conversation history and no
\* rate-limit bucket.
Forgotten(c) ==
    /\ c \notin DOMAIN conversation_memory
    /\ \A key \in DOMAIN rate_limit_tracker : SubSeq(key, 1, Len(key) - 1) # c

\* The client has a history whose last interaction is older than the sweep's cutoff,
\* and a request of another client has just been served.
OutlivedBy(c) ==
    /\ c \in DOMAIN conversation_memory
    /\ op.name = "chat"
    /\ op.client # c
    /\ op.path = "answered"
    /\ conversation_memory[c][Len(conversation_memory[c])].timestamp + CleanupCutoff
           <= op.at

BucketMinute(key) == key[Len(key)]

\* A step that is one whole rate_limit_check call.
CheckStep == rl_total' = rl_total + 1

\* C27: after every rate_limit_check call, admitted or rejected, the tracker holds no
\* bucket whose minute is more than 5 minutes before the current minute, and every
\* bucket of the last 5 minutes that was there before the call is still there.
C27_TrackerHoldsLastFiveMinutes ==
    [][CheckStep =>
          /\ \A key \in DOMAIN rate_limit_tracker' :
                 BucketMinute(key) >= MinuteOf(now) - 5
          /\ \A key \in DOMAIN rate_limit_tracker :
                 BucketMinute(key) >= MinuteOf(now) - 5 => key \in DOMAIN rate_limit_tracker'
      ]_vars

\* C28: rate_limit_check answers True or False without raising for every client
\* identifier, also one that holds ':', and an admitted call with such identifiers in
\* the tracker leaves exactly the buckets that are not older than 5 minutes.
C28_SeparatorInClientIdentifier ==
    [][CheckStep =>
          /\ rl_last'.ret \in {"True", "False"}
          /\ rl_last'.ret = "True" =>
                 DOMAIN rate_limit_tracker' =
                     {key \in DOMAIN rate_limit_tracker
                                 \cup {MinuteKey(rl_last'.client, MinuteOf(now))} :
                         BucketMinute(key) >= MinuteOf(now) - 5}
      ]_vars

\* --------------------------------------------------- claims: concurrent requests

\* C29: while one request runs the sweep and another stores into the response or the
\* search cache, no request fails, and the sweep deletes no entry younger than its
\* cutoff, however the steps interleave.
C29_SweepSafeUnderStores ==
    /\ \A t \in DOMAIN req_pc : req_pc[t] # "failed"
    /\ op.name = "sweep" => \A d \in op.deleted : d.timestamp < d.cutoff

\* Both requests have left update_conversation_memory.
BothDone == op.name = "memory" /\ \A t \in DOMAIN req_pc : req_pc[t] = "done"

\* The client's history holds the interaction with this query.
Remembered(query) ==
    /\ PlainClient \in DOMAIN conversation_memory
    /\ \E i \in 1..Len(conversation_memory[PlainClient]) :
           conversation_memory[PlainClient][i].query = query

\* C30: when two requests of one client have both run update_conversation_memory,
\* however their steps interleaved, both interactions are in the client's history and
\* the history holds at most 5 entries.
C30_ConcurrentUpdatesBothKept ==
    BothDone =>
        /\ Remembered("q1")
        /\ Remembered("q2")
        /\ Len(conversation_memory[PlainClient]) <= 5

\* --------------------------------------------------- claims: sweep after a pause

\* C31: a cleanup_cache call made 600 s or more after the previous sweep performs the
\* sweep and records the new sweep time, however long the pause was, pauses of more than
\* a day included.
C31_SweepAfterAnyPause ==
    (op.name = "cleanup" /\ op.at - op.before.last_cleanup >= CleanupInterval) =>
        /\ op.swept
        /\ last_cleanup = op.at

\* ------------------------------------------------ claims: composed responses

\* C32: a response served from the response cache was stored by a call with the same
\* query text, the same context document ids and the same client; a request of another
\* client, with another query or with other context documents is never served it.
C32_ResponseSharedOnlyByEqualCalls ==
    (op.name = "compose" /\ op.path = "cached") =>
        op.stored_by = <<[query |-> op.query, ids |-> op.ids, client |-> op.client]>>

\* A call served from the cache while the cache also holds an entry of another client
\* for the same query and documents.
C32_Witness ==
    /\ op.name = "compose"
    /\ op.path = "cached"
    /\ \E k \in DOMAIN op.owners :
           /\ op.owners[k].query = op.query
           /\ op.owners[k].ids = op.ids
           /\ op.owners[k].client # op.client

\* --------------------------------------------------- claims: what is learned

\* The last request was answered with the apology of generate_response.
Apologised == op.name = "chat" /\ op.reply.response = Apology

\* C33: a request whose response generation failed and was answered with the fixed
\* apology adds no response entry, no interaction count and no derived knowledge to the
\* learning state.
C33_FailedResponseNotLearned ==
    Apologised =>
        /\ learning_database = op.before.learning_database
        /\ knowledge_expansion = op.before.knowledge_expansion

\* ------------------------------------------------------ claims: sources list

\* The sources of the last reply.
Sources == op.reply.sources

\* C34: in a reply of app.py's chat every knowledge-base source stands before every
\* Gemini-search source, and the knowledge-base sources are documents with a similarity
\* above 0.5.
C34_KnowledgeBaseSourcesFirst ==
    Served =>
        /\ \A i, j \in 1..Len(Sources) :
               (Sources[i].source = "knowledge_base" /\ Sources[j].source = "gemini_search")
                   => i < j
        /\ \A i \in 1..Len(Sources) :
               Sources[i].source = "knowledge_base" => Sources[i].similarity > 50

\* ---------------------------------------------------- claims: learning caps

\* The first n entries of a sequence dropped down to its last n.
MostRecent(entries, n) ==
    SubSeq(entries, Max(1, Len(entries) - n + 1), Len(entries))

\* C35: after any sequence of learn_from_interaction calls every signature stores at
\* most 10 responses, the 10 most recent of all made for it; every concept stores at
\* most 5 definitions and at most 10 related queries; and a call saves the learning
\* database exactly when it brings its signature's total_interactions to a multiple
\* of 5.
C35_LearningCapsAndSaves ==
    /\ \A s \in DOMAIN learning_database :
           /\ Len(learning_database[s].responses) <= 10
           /\ learning_database[s].responses = MostRecent(op.history[s], 10)
    /\ \A c \in DOMAIN knowledge_expansion :
           /\ Len(knowledge_expansion[c].definitions) <= 5
           /\ Len(knowledge_expansion[c].related_queries) <= 10
    /\ op.name = "learn" =>
           (op.saved <=>
               learning_database[Lower(op.input.query)].total_interactions % 5 = 0)

\* A call that found its signature with 10 responses and its concept with 10 related
\* queries and more than 5 definitions made, and asked in a spelling not yet seen.
C35_Witness ==
    /\ op.name = "learn"
    /\ Len(op.history[Lower(op.input.query)]) > 10
    /\ \E c \in DOMAIN op.before.knowledge_expansion :
           /\ Len(op.before.knowledge_expansion[c].related_queries) = 10
           /\ \A i \in 1..10 :
                  op.before.knowledge_expansion[c].related_queries[i] # op.input.query
           /\ c \in extract_key_concepts(op.input.query)
           /\ op.before.knowledge_expansion[c].confidence_score > 5

\* --------------------------------------------------------- claims: feedback

\* The fields of the last feedback submission, with the defaults of lines 1092-1093.
FbSignature == DictGet(op.input, "query_signature", PyNone)

FbIndex == DictGet(op.input, "response_index", 0)

FbScore == DictGet(op.input, "feedback_score", 0)

\* The submission addresses a response that was stored when it arrived.
FbAddressed ==
    /\ FbSignature \in DOMAIN op.before.learning_database
    /\ 0 <= FbIndex
    /\ FbIndex < Len(op.before.learning_database[FbSignature].responses)

\* The mean, in score units, of the feedback scores of a signature's responses.
MeanScore(entry) ==
    SumSeq([i \in 1..Len(entry.responses) |-> entry.responses[i].feedback_score])
        \div Len(entry.responses)

\* C36: a feedback submission with a known signature, an index in range and any score
\* from -1 to 1, 0 included, stores the score on the addressed response and sets the
\* query's success_score to the mean of its responses' scores; one with an unknown
\* signature or an index out of range leaves the learning database as it was and saves
\* nothing.
C36_FeedbackStoredOrIgnored ==
    op.name = "feedback" =>
        IF FbAddressed
        THEN /\ learning_database[FbSignature].responses[FbIndex + 1].feedback_score
                    = FbScore
             /\ learning_database[FbSignature].success_score
                    = MeanScore(learning_database[FbSignature])
        ELSE /\ learning_database = op.before.learning_database
             /\ ~op.saved

\* ------------------------------------------------ claims: knowledge-base load

\* The last load read a kb.json.
Loaded == op.name = "load" /\ op.kb_file.exists

\* The document whose embedding request failed, in a load where one failed.
FailedAt == op.requests[Len(op.requests)].doc

\* C37: during load_knowledge_base, once an embedding request has failed no further
\* request is made in that load, and no document is lost for it: the corpus is the
\* input documents, once each and in input order, and every document from the failed
\* one on has its cached embedding if the cache holds one for its id and no embedding
\* otherwise.
C37_LoadSurvivesEmbeddingFailure ==
    Loaded =>
        /\ \A k \in 1..Len(op.requests) : ~op.requests[k].ok => k = Len(op.requests)
        /\ Len(kb_docs) = Len(op.kb_file.rows)
        /\ \A i \in 1..Len(kb_docs) : Raw(kb_docs[i]) = Raw(op.kb_file.rows[i])
        /\ op.failed =>
               \A i \in FailedAt..Len(kb_docs) :
                   kb_docs[i].embedding =
                       IF kb_docs[i].id \in DOMAIN op.cached
                       THEN op.cached[kb_docs[i].id] ELSE <<>>

\* A load whose second request failed with two documents still to come, one of them
\* with an embedding in the cache and one without.
C37_Witness ==
    /\ Loaded
    /\ op.failed
    /\ Len(op.requests) > 1
    /\ \E i, j \in (FailedAt + 1)..Len(kb_docs) :
           /\ kb_docs[i].embedding # <<>>
           /\ kb_docs[j].embedding = <<>>

====
